---- MODULE Spec2Model ----
(***************************************************************************)
(* Model of the fragment sequencer (symphony/data/fragments.py) and of the *)
(* generation scheduler (analyses/generate_molecules_stream.py).           *)
(*                                                                         *)
(* Node indices are 0-based as in the source; TLA+ sequences are 1-based,  *)
(* so node i of a molecule is element i+1 of its position/species lists.   *)
(* Lengths are integers in hundredths of a length unit (1.0 is 100).       *)
(* Random draws are nondeterministic choices over the outcomes that have   *)
(* positive probability.                                                   *)
(***************************************************************************)
EXTENDS Integers, Sequences, FiniteSets, TLC

VARIABLES
    \* ---- fragment sequencer (generate_fragments) ----
    mol,            \* graph: the input molecule with its neighbour list
    num_graphs,     \* len(graph.n_node): the number of graphs the input holds
    cfg,            \* the arguments of generate_fragments
    fpc,            \* position of generate_fragments
    first_atom,     \* first_node of _make_first_fragment, or NoneValue
    visited,        \* visited_nodes: a list of node indices (duplicates possible)
    counter,        \* loop counter of generate_fragments
    focus_nodes,    \* _make_middle_fragment: the selected focus nodes (ascending)
    trial,          \* _make_middle_fragment: index of the next sampling trial
    target_ndxs,    \* focus node -> edge index drawn in the latest trial
    best_num_targets,
    best_target_ndxs, \* focus node -> edge index of the kept trial
    emitted,        \* the fragments yielded so far, in order
    ferr,           \* the exception that ended generate_fragments, or "none"
    twin,           \* a second run with the same key, molecule and arguments
    \* ---- generation scheduler (generate_molecules) ----
    gpc,            \* position of generate_molecules
    num_seeds,      \* number of seeds submitted
    fragment_pool,  \* queue.SimpleQueue of fragments
    acc,            \* dynamically_batch: the graph accumulated for the next batch
    batch,          \* the batch handed to the predictor (one real graph)
    exhausted,      \* the queue iterator has returned
    generated_molecules, \* list of (stop, fragment)
    last_round,     \* record of the growth round just performed
    gerr,           \* the exception that ended generate_molecules, or "none"
    rounds,         \* seed id -> number of growth rounds started for it
    \* ---- subgraph ----
    sub_pc,         \* position of a call of subgraph
    sub_graph,      \* its argument graph
    sub_nodes,      \* its argument nodes
    sub_result,     \* the graph it returned
    \* ---- training loop (train_and_evaluate) ----
    tpc,            \* position of train_and_evaluate
    tcfg,           \* config: num_train_steps and eval_every_steps
    initial_step,   \* int(state.step) + 1 of the restored state
    step,           \* the loop variable, or NoneValue while it is unbound
    state,          \* the training state, named by the updates it has had
    best_state,     \* the recorded best state
    step_for_best_state,
    min_val_loss,   \* the recorded minimum validation loss
    evaluations,    \* the validation evaluations made so far, in order
    train_iter,     \* the number of batches the training iterator still holds
    returned,       \* the state train_and_evaluate returned, or NoneValue
    terr            \* the exception that ended train_and_evaluate, or "none"

fvars == <<mol, num_graphs, cfg, fpc, first_atom, visited, counter, focus_nodes,
           trial, target_ndxs, best_num_targets, best_target_ndxs, emitted, ferr,
           twin>>
gvars == <<gpc, num_seeds, fragment_pool, acc, batch, exhausted,
           generated_molecules, last_round, gerr, rounds>>
svars == <<sub_pc, sub_graph, sub_nodes, sub_result>>
tvars == <<tpc, tcfg, initial_step, step, state, best_state,
           step_for_best_state, min_val_loss, evaluations, train_iter,
           returned, terr>>
vars == <<fvars, gvars, svars, tvars>>

(***************************************************************************)
(* Generic helpers                                                         *)
(***************************************************************************)
Range(s) == {s[i] : i \in 1..Len(s)}

Min(S) == CHOOSE x \in S : \A y \in S : x <= y

Max(S) == CHOOSE x \in S : \A y \in S : x >= y

RECURSIVE SortedSeq(_)
\* The elements of a finite set of integers in ascending order
\* (the order in which a boolean mask selects array entries).
SortedSeq(S) == IF S = {} THEN <<>> ELSE <<Min(S)>> \o SortedSeq(S \ {Min(S)})

RECURSIVE SumSeq(_)
SumSeq(s) == IF s = <<>> THEN 0 ELSE Head(s) + SumSeq(Tail(s))

Take(s, k) == SubSeq(s, 1, IF Len(s) < k THEN Len(s) ELSE k)

\* np.pad(xs, (0, k - len(xs))): zero padding on the right up to length k.
PadZeros(s, k) == s \o [i \in 1..(k - Len(s)) |-> 0]

(***************************************************************************)
(* Molecular graphs                                                        *)
(***************************************************************************)
\* The input molecules: the chiral tetris piece, a three-atom line C-H-N,
\* a bent H-C-C, a line with a gap between its second and third atom, a
\* single atom, two atoms a little more than 5 length units apart, and a
\* bent chain whose end atoms are a little more than 5 length units apart.
Molecules ==
    << [positions |-> << <<0,0,0>>, <<0,0,1>>, <<1,0,0>>, <<1,1,0>> >>,
        species   |-> <<0, 0, 0, 0>>],
       [positions |-> << <<0,0,0>>, <<0,0,1>>, <<0,0,2>> >>,
        species   |-> <<1, 0, 2>>],
       [positions |-> << <<0,0,0>>, <<1,0,0>>, <<0,1,0>> >>,
        species   |-> <<0, 1, 1>>],
       [positions |-> << <<0,0,0>>, <<0,0,1>>, <<0,0,3>> >>,
        species   |-> <<1, 1, 0>>],
       [positions |-> << <<0,0,0>> >>,
        species   |-> <<1>>],
       [positions |-> << <<0,0,0>>, <<5,1,0>> >>,
        species   |-> <<1, 1>>],
       [positions |-> << <<0,0,0>>, <<3,0,0>>, <<5,1,0>> >>,
        species   |-> <<1, 1, 1>>] >>

\* Largest squared distance (in squared length units) the distance table covers.
MaxD2 == 30

\* Squared Euclidean distance of two lattice points.
D2(p, q) == (p[1] - q[1]) * (p[1] - q[1]) + (p[2] - q[2]) * (p[2] - q[2])
            + (p[3] - q[3]) * (p[3] - q[3])

\* np.linalg.norm in hundredths, rounded down: Norm100[d2] = floor(100 * sqrt(d2)).
Norm100 == [x \in 0..MaxD2 |->
               CHOOSE r \in 0..600 : r * r <= 10000 * x /\ (r + 1) * (r + 1) > 10000 * x]

\* m is a molecule, or a graph built from one: len(nodes.positions).
NumNodes(m) == Len(m.positions)

Nodes(m) == 0..(NumNodes(m) - 1)

Pos(m, i) == m.positions[i + 1]

Species(m, i) == m.species[i + 1]

NodeDist(m, i, j) == Norm100[D2(Pos(m, i), Pos(m, j))]

\* Radial cutoffs at which the neighbour graph of a molecule is built.
CutoffChoices == {500}

\* A longer radial cutoff (6.0).
LongCutoffChoices == {600}

\* The neighbour list at the radial cutoff: every ordered pair of distinct
\* atoms closer than the cutoff, listed by receiver and then by sender.
EdgePairs(m, cutoff) ==
    LET n == NumNodes(m)
        all == [k \in 1..(n * n) |-> [r |-> (k - 1) \div n, s |-> (k - 1) % n]]
    IN  SelectSeq(all, LAMBDA e : e.s # e.r /\ NodeDist(m, e.s, e.r) < cutoff)

\* The graph of every molecule at every cutoff: its atoms, senders, receivers
\* and dist (the length of every edge, as generate_fragments computes it).
\* id is the index of the molecule in Molecules.
Graphs ==
    [i \in 1..Len(Molecules), c \in CutoffChoices \cup LongCutoffChoices |->
        LET ep == EdgePairs(Molecules[i], c)
        IN  [id        |-> i,
             positions |-> Molecules[i].positions,
             species   |-> Molecules[i].species,
             senders   |-> [e \in 1..Len(ep) |-> ep[e].s],
             receivers |-> [e \in 1..Len(ep) |-> ep[e].r],
             dist      |-> [e \in 1..Len(ep) |->
                               NodeDist(Molecules[i], ep[e].s, ep[e].r)]]]

\* graph.senders, graph.receivers and dist of a graph.
Senders(m) == m.senders

Receivers(m) == m.receivers

EdgeDist(m) == m.dist

NumEdges(m) == Len(Senders(m))

EdgeIdx(m) == 1..NumEdges(m)

\* xs[mask]: the entries of an edge array selected by a mask (a set of edge
\* indices), in edge order.
Masked(xs, mask) == [k \in 1..Cardinality(mask) |-> xs[SortedSeq(mask)[k]]]

\* _normalized_bitcount / np.bincount: how often value v occurs in xs.
Bincount(xs, v) == Cardinality({k \in 1..Len(xs) : xs[k] = v})

(***************************************************************************)
(* Fragment sequencer: configuration                                       *)
(***************************************************************************)
\* nn_tolerance values tried (0.01 as in the tetris scenario, and 0.5).
NNToleranceChoices == {1, 50}

\* max_radius values tried (1.0, 1.5).
MaxRadiusChoices == {100, 150}

\* Largest num_nodes_for_multifocus and max_targets_per_graph tried.
MaxMultifocus == 2

MaxTargets == 2

\* Python's None for an Optional[float] argument.
NoneValue == -1

\* The argument combinations that pass the checks at the top of
\* generate_fragments.
Configs ==
    {c \in [mode : {"nn", "radius"},
            nn_tolerance : NNToleranceChoices \cup {NoneValue},
            max_radius : MaxRadiusChoices \cup {NoneValue},
            num_nodes_for_multifocus : 1..MaxMultifocus,
            heavy_first : BOOLEAN,
            max_targets_per_graph : 1..MaxTargets,
            cutoff : CutoffChoices] :
        \/ c.mode = "nn" /\ c.nn_tolerance # NoneValue /\ c.max_radius = NoneValue
        \/ c.mode = "radius" /\ c.nn_tolerance = NoneValue /\ c.max_radius # NoneValue}

\* The values of mode tried: the two the source knows and another one.
ModeChoices == {"nn", "radius", "knn"}

\* Every argument combination tried, whether or not it passes the checks at
\* the top of generate_fragments.
AllConfigs ==
    [mode : ModeChoices,
     nn_tolerance : NNToleranceChoices \cup {NoneValue},
     max_radius : MaxRadiusChoices \cup {NoneValue},
     num_nodes_for_multifocus : 1..MaxMultifocus,
     heavy_first : BOOLEAN,
     max_targets_per_graph : 1..MaxTargets,
     cutoff : CutoffChoices \cup LongCutoffChoices]

\* A plausible slip: the last check, of an nn_tolerance given outside "nn"
\* mode, left out.
ArgumentError_StrayToleranceAccepted(c) ==
    IF c.mode \notin {"nn", "radius"}
    THEN "ValueError: mode must be either 'nn' or 'radius'."
    ELSE IF c.mode = "radius" /\ c.max_radius = NoneValue
    THEN "ValueError: max_radius must be specified for mode 'radius'."
    ELSE IF c.mode # "radius" /\ c.max_radius # NoneValue
    THEN "ValueError: max_radius specified, but mode is not 'radius'."
    ELSE IF c.mode = "nn" /\ c.nn_tolerance = NoneValue
    THEN "ValueError: nn_tolerance must be specified for mode 'nn'."
    ELSE "none"

\* The outcome of the argument checks at the top of generate_fragments: the
\* first check that fails, or "none".
ArgumentError(c) ==
    IF c.mode \notin {"nn", "radius"}
    THEN "ValueError: mode must be either 'nn' or 'radius'."
    ELSE IF c.mode = "radius" /\ c.max_radius = NoneValue
    THEN "ValueError: max_radius must be specified for mode 'radius'."
    ELSE IF c.mode # "radius" /\ c.max_radius # NoneValue
    THEN "ValueError: max_radius specified, but mode is not 'radius'."
    ELSE IF c.mode = "nn" /\ c.nn_tolerance = NoneValue
    THEN "ValueError: nn_tolerance must be specified for mode 'nn'."
    ELSE IF c.mode # "nn" /\ c.nn_tolerance # NoneValue
    THEN "ValueError: nn_tolerance specified, but mode is not 'nn'."
    ELSE "none"

\* A plausible slip: the assertion on the number of graphs left out.
GraphAssert_NodesOnly(m, n_graphs) == NumNodes(m) >= 2

\* The assertions of generate_fragments on its graph: a single graph with
\* at least two nodes.
GraphAssert(m, n_graphs) == n_graphs = 1 /\ NumNodes(m) >= 2

\* A plausible slip: "radius" mode without the max_radius test.
DistanceFilter_NoRadius(m, c, mask) ==
    LET dist == EdgeDist(m)
    IN  IF c.mode = "nn"
        THEN LET min_dist == Min({dist[e] : e \in mask})
             IN  {e \in mask : dist[e] < min_dist + c.nn_tolerance}
        ELSE mask

\* mask & (dist < min_dist + nn_tolerance)  or  mask & (dist < max_radius).
\* Only called with a mask that is non-empty in "nn" mode.
DistanceFilter(m, c, mask) ==
    LET dist == EdgeDist(m)
    IN  IF c.mode = "nn"
        THEN LET min_dist == Min({dist[e] : e \in mask})
             IN  {e \in mask : dist[e] < min_dist + c.nn_tolerance}
        ELSE {e \in mask : dist[e] < c.max_radius}

\* The species indices 0..num_species-1 (0 is hydrogen).
SpeciesIds == {0, 1, 2}

\* A probability, kept as the fraction the source divides out.
Fraction(num, den) == [num |-> num, den |-> den]

\* np.zeros((num_nodes, num_species)).
ZeroSpeciesProbability(m) ==
    [i \in Nodes(m) |-> [sp \in SpeciesIds |-> Fraction(0, 1)]]

(***************************************************************************)
(* Fragment builder (_into_fragment) and subgraph                          *)
(***************************************************************************)
Zero3 == <<0, 0, 0>>

Diff3(p, q) == <<p[1] - q[1], p[2] - q[2], p[3] - q[3]>>

\* np.linalg.norm of an offset, in hundredths.
VecNorm(v) == Norm100[D2(v, Zero3)]

\* target_nodes padded with zeros to num_nodes_for_multifocus rows of
\* max_targets_per_graph entries.
ReshapeTargetNodes(target_nodes, c) ==
    [i \in 1..c.num_nodes_for_multifocus |->
        IF i <= Len(target_nodes)
        THEN PadZeros(target_nodes[i], c.max_targets_per_graph)
        ELSE [k \in 1..c.max_targets_per_graph |-> 0]]

\* A plausible slip: the species of the last node of row i is recorded.
BuilderTargetSpecies_LastEntry(m, c, target_nodes) ==
    [i \in 1..c.num_nodes_for_multifocus |->
        Species(m, ReshapeTargetNodes(target_nodes, c)[i][c.max_targets_per_graph])]

\* target_species[i] = species_i[0]: the species of the first node of row i,
\* whether or not that entry is a valid target.
BuilderTargetSpecies(m, c, target_nodes) ==
    [i \in 1..c.num_nodes_for_multifocus |->
        Species(m, ReshapeTargetNodes(target_nodes, c)[i][1])]

\* The assertion that all valid targets of a row have the species of its
\* first entry.
BuilderSpeciesAssert(m, c, target_nodes, target_mask) ==
    \A i \in 1..c.num_nodes_for_multifocus :
        \A k \in 1..c.max_targets_per_graph :
            target_mask[i][k] =>
                Species(m, ReshapeTargetNodes(target_nodes, c)[i][k])
                    = Species(m, ReshapeTargetNodes(target_nodes, c)[i][1])

\* target_positions: row i is filled from the i-th focus (ascending node
\* index) and the i-th row of target_nodes, over zip's common length.
BuilderTargetPositions(m, c, focus_mask, target_nodes, target_mask) ==
    LET focus_list == SortedSeq(focus_mask)
        rows == Min({Len(focus_list), Len(target_nodes), Len(target_mask)})
    IN  [i \in 1..c.num_nodes_for_multifocus |->
            [k \in 1..c.max_targets_per_graph |->
                IF i <= rows
                THEN LET valid == {j \in 1..Len(target_nodes[i]) : target_mask[i][j]}
                         nodes == Masked(target_nodes[i], valid)
                     IN  IF k <= Len(nodes)
                         THEN Diff3(Pos(m, nodes[k]), Pos(m, focus_list[i]))
                         ELSE Zero3
                ELSE Zero3]]

\* The cutoff that _into_fragment asserts on (5.0).
BuilderCutoff == 500

\* The assertion that every target offset is shorter than 5.0.
BuilderCutoffAssert(target_positions) ==
    \A i \in 1..Len(target_positions) :
        \A k \in 1..Len(target_positions[i]) :
            VecNorm(target_positions[i][k]) < BuilderCutoff

\* Whether every assertion of _into_fragment passes.
IntoFragmentOk(m, c, nodes, focus_mask, target_nodes, target_mask, stop) ==
    /\ BuilderSpeciesAssert(m, c, target_nodes, target_mask)
    /\ BuilderCutoffAssert(
           BuilderTargetPositions(m, c, focus_mask, target_nodes, target_mask))
    /\ stop => Len(nodes) = NumNodes(m)

\* A plausible slip: the stop flag stored negated.
StopField_Negated(stop) == ~stop

\* globals.stop of the fragment: the stop argument.
StopField(stop) == stop

\* lambda x: x[nodes]: the rows of a per-node array at a list of node
\* indices, in the order of the list.
NodeRows(xs, nodes) == [k \in 1..Len(nodes) |-> xs[nodes[k] + 1]]

\* nodes.positions of the returned graph: pos itself when stop, its rows at
\* the visited nodes otherwise.
FragmentPositions(m, nodes, stop) ==
    IF stop THEN m.positions ELSE NodeRows(m.positions, nodes)

\* A plausible slip: atomic numbers (hydrogen is 1) stored for the species
\* indices (hydrogen is 0).
FragmentSpecies_AtomicNumbers(m, nodes, stop) ==
    [k \in 1..Len(nodes) |-> Species(m, nodes[k]) + 1]

\* nodes.species of the returned graph.
FragmentSpecies(m, nodes, stop) ==
    IF stop THEN m.species ELSE NodeRows(m.species, nodes)

\* A plausible slip: the distinct nodes counted.
FragmentNumNodes_Distinct(nodes) == Cardinality(Range(nodes))

\* n_node of the returned graph: len(nodes) for a subgraph, and the number
\* of atoms of the molecule when stop (nodes then lists every atom once).
FragmentNumNodes(nodes) == Len(nodes)

\* The fragment _into_fragment returns: the subgraph over `nodes` (the whole
\* graph when stop), with the annotations. target_nodes records the rows
\* the annotations were built from.
IntoFragment(m, c, nodes, focus_mask, target_species_probability, target_nodes, target_mask, stop) ==
    [stop |-> StopField(stop),
     nodes |-> nodes,
     n_node |-> FragmentNumNodes(nodes),
     positions |-> FragmentPositions(m, nodes, stop),
     species |-> FragmentSpecies(m, nodes, stop),
     focus_mask |-> focus_mask,
     focus_and_target_species_probs |->
         [k \in 1..Len(nodes) |-> target_species_probability[nodes[k]]],
     target_nodes |-> target_nodes,
     target_species |-> BuilderTargetSpecies(m, c, target_nodes),
     target_positions |->
         BuilderTargetPositions(m, c, focus_mask, target_nodes, target_mask),
     target_positions_mask |-> target_mask]

\* An all-false target mask of num_nodes_for_multifocus rows.
ZeroMask(c) ==
    [i \in 1..c.num_nodes_for_multifocus |->
        [k \in 1..c.max_targets_per_graph |-> FALSE]]

(***************************************************************************)
(* A second run of generate_fragments, started with the same random key on *)
(* the same molecule with the same arguments, followed in lockstep up to   *)
(* the first fragment in which it differs. A draw made with jax.random     *)
(* from the key has the same outcome in both runs as long as their states  *)
(* are the same, so up to that fragment the second run emits what this run *)
(* emits; np.random.choice draws from NumPy's global generator, whose      *)
(* state is no argument of generate_fragments, so its outcome in the       *)
(* second run is chosen independently.                                     *)
(***************************************************************************)
\* The second run before it has differed: same says that it is followed and
\* that its state is still that of this run; focus_nodes are the foci it
\* selected in the current Middle step.
TwinInit == [focus_nodes |-> {}, same |-> TRUE]

\* No second run is followed.
NoTwin == [focus_nodes |-> {}, same |-> FALSE]


(***************************************************************************)
(* Fragment sequencer: the checks of generate_fragments and                *)
(* _make_first_fragment                                                    *)
(***************************************************************************)
\* The start of generate_fragments: the argument checks and then the
\* assertions on the graph.
CheckArguments ==
    /\ fpc = "start"
    /\ IF ArgumentError(cfg) # "none"
       THEN /\ fpc' = "raised"
            /\ ferr' = ArgumentError(cfg)
       ELSE IF ~GraphAssert(mol, num_graphs)
       THEN /\ fpc' = "raised"
            /\ ferr' = "AssertionError"
       ELSE /\ fpc' = "first"
            /\ ferr' = ferr
    /\ UNCHANGED <<mol, num_graphs, cfg, first_atom, visited, counter, focus_nodes,
                   trial, target_ndxs, best_num_targets, best_target_ndxs, emitted,
                   twin>>
    /\ UNCHANGED <<gvars, svars, tvars>>

\* The nodes the first atom is drawn from.
FirstNodeChoices(m, c) ==
    IF c.heavy_first /\ \E i \in Nodes(m) : Species(m, i) # 0
    THEN {i \in Nodes(m) : Species(m, i) # 0}
    ELSE Nodes(m)

\* mask of _make_first_fragment before the distance filter. The test
\* (mask & species[receivers] > 0) is the bitwise AND of the mask with the
\* species compared with 0: true at an edge of the mask whose receiver has an
\* odd species index.
FirstMask(m, c, first_node) ==
    LET senders == Senders(m)
        receivers == Receivers(m)
        mask == {e \in EdgeIdx(m) : senders[e] = first_node}
    IN  IF c.heavy_first /\ \E e \in mask : Species(m, receivers[e]) % 2 = 1
        THEN {e \in mask : Species(m, receivers[e]) > 0}
        ELSE mask

\* _make_first_fragment raises ValueError: min() of an empty selection in
\* "nn" mode, or no target left.
FirstRaises(m, c, first_node) ==
    \/ c.mode = "nn" /\ FirstMask(m, c, first_node) = {}
    \/ DistanceFilter(m, c, FirstMask(m, c, first_node)) = {}

\* targets: the receivers of the filtered edges, in edge order.
FirstTargets(m, c, first_node) ==
    Masked(Receivers(m), DistanceFilter(m, c, FirstMask(m, c, first_node)))

\* target_species_probability of the first fragment: at first_node the
\* normalized species counts of its targets, zero at every other node.
FirstSpeciesProbability(m, c, first_node) ==
    LET targets == FirstTargets(m, c, first_node)
        species == [k \in 1..Len(targets) |-> Species(m, targets[k])]
    IN  [i \in Nodes(m) |->
            [sp \in SpeciesIds |->
                IF i = first_node
                THEN Fraction(Bincount(species, sp), Len(targets))
                ELSE Fraction(0, 1)]]

\* pick_targets: up to max_targets_per_graph targets of the drawn species.
PickTargets(m, targets, target_species, max_targets_per_graph) ==
    Take(SelectSeq(targets, LAMBDA t : Species(m, t) = target_species),
         max_targets_per_graph)

\* target_mask of the first fragment: row 0 marks the picked targets.
FirstTargetMask(c, num_picked) ==
    [i \in 1..c.num_nodes_for_multifocus |->
        [k \in 1..c.max_targets_per_graph |-> i = 1 /\ k <= num_picked]]

\* The list next_node is drawn from: target_nodes after np.pad.
FirstNextNodeChoices(picked, c) == Range(PadZeros(picked, c.max_targets_per_graph))

MakeFirstFragment ==
    /\ fpc = "first"
    /\ \E first_node \in FirstNodeChoices(mol, cfg) :
        /\ first_atom' = first_node
        /\ IF FirstRaises(mol, cfg, first_node)
           THEN /\ fpc' = "raised"
                /\ ferr' = "ValueError"
                /\ UNCHANGED <<visited, emitted>>
           ELSE \E target_species \in
                    {Species(mol, t) : t \in Range(FirstTargets(mol, cfg, first_node))} :
                LET picked == PickTargets(mol, FirstTargets(mol, cfg, first_node),
                                          target_species, cfg.max_targets_per_graph)
                    target_mask == FirstTargetMask(cfg, Len(picked))
                    target_nodes == <<PadZeros(picked, cfg.max_targets_per_graph)>>
                IN  IF ~IntoFragmentOk(mol, cfg, <<first_node>>, {first_node},
                                       target_nodes, target_mask, FALSE)
                    THEN /\ fpc' = "raised"
                         /\ ferr' = "AssertionError"
                         /\ UNCHANGED <<visited, emitted>>
                    ELSE \E next_node \in FirstNextNodeChoices(picked, cfg) :
                         /\ visited' = <<first_node, next_node>>
                         /\ emitted' = Append(emitted,
                                IntoFragment(mol, cfg, <<first_node>>, {first_node},
                                             FirstSpeciesProbability(mol, cfg, first_node),
                                             target_nodes, target_mask, FALSE))
                         /\ fpc' = "loop"
                         /\ ferr' = ferr
    /\ counter' = 0
    /\ UNCHANGED <<mol, num_graphs, cfg, focus_nodes, trial, target_ndxs,
                   best_num_targets, best_target_ndxs, twin>>
    /\ UNCHANGED <<gvars, svars, tvars>>

(***************************************************************************)
(* Fragment sequencer: _make_middle_fragment                               *)
(***************************************************************************)
\* Number of target-sampling trials of a Middle step.
NumTrials == 10

\* heavy[visited].sum(): the heavy entries of the visited list.
HeavyVisited(m, vis) ==
    Cardinality({k \in 1..Len(vis) : Species(m, vis[k]) > 0})

\* A plausible slip: the test on the receiver left out, every edge that
\* leaves a visited node is a candidate.
MiddleMask_AnyReceiver(m, c, vis) ==
    {e \in EdgeIdx(m) : Senders(m)[e] \in Range(vis)}

\* mask of _make_middle_fragment before the distance filter: edges from a
\* visited sender to an unvisited receiver, heavy to heavy while heavy atoms
\* remain.
MiddleMask(m, c, vis) ==
    LET senders == Senders(m)
        receivers == Receivers(m)
        mask == {e \in EdgeIdx(m) :
                    senders[e] \in Range(vis) /\ receivers[e] \notin Range(vis)}
    IN  IF c.heavy_first
           /\ Cardinality({i \in Nodes(m) : Species(m, i) > 0}) > HeavyVisited(m, vis)
        THEN {e \in mask : Species(m, senders[e]) > 0 /\ Species(m, receivers[e]) > 0}
        ELSE mask

\* A plausible slip: only the failure of min() is taken for an error, the
\* explicit check of the counts is left out.
MiddleRaises_NoCountCheck(m, c, vis) ==
    c.mode = "nn" /\ MiddleMask(m, c, vis) = {}

\* _make_middle_fragment raises ValueError: min() of an empty selection in
\* "nn" mode, or all counts zero.
MiddleRaises(m, c, vis) ==
    \/ c.mode = "nn" /\ MiddleMask(m, c, vis) = {}
    \/ DistanceFilter(m, c, MiddleMask(m, c, vis)) = {}

\* The candidate edges of a Middle step.
MiddleEdges(m, c, vis) == DistanceFilter(m, c, MiddleMask(m, c, vis))

\* The candidate edges leaving one node: (senders == focus_node) & mask.
EdgesOfFocus(m, c, vis, focus_node) ==
    {e \in MiddleEdges(m, c, vis) : Senders(m)[e] = focus_node}

\* target_species_probability of a Middle step: counts / np.sum(counts),
\* where counts[focus_node] are the species counts of the candidate targets
\* of focus_node, for every node of the graph.
MiddleSpeciesProbability(m, c, vis) ==
    LET targets(i) == Masked(Receivers(m), EdgesOfFocus(m, c, vis, i))
        species(i) == [k \in 1..Len(targets(i)) |-> Species(m, targets(i)[k])]
    IN  [i \in Nodes(m) |->
            [sp \in SpeciesIds |->
                Fraction(Bincount(species(i), sp),
                         Cardinality(MiddleEdges(m, c, vis)))]]

\* np.argmax(focus_probability): the lowest node index with the most
\* candidate edges.
ArgmaxFocus(m, c, vis) ==
    LET cnt(i) == Cardinality(EdgesOfFocus(m, c, vis, i))
        best == Max({cnt(i) : i \in Nodes(m)})
    IN  Min({i \in Nodes(m) : cnt(i) = best})

\* Whether the step takes the multi-focus branch: visited.sum() is the sum
\* of the visited node indices.
UsesMultifocus(c, vis) == SumSeq(vis) >= c.num_nodes_for_multifocus

\* A plausible slip: the multi-focus branch keeps every candidate, without
\* dropping the excess over num_nodes_for_multifocus.
FocusChoices_NoCap(m, c, vis) ==
    IF UsesMultifocus(c, vis)
    THEN {{i \in Nodes(m) : EdgesOfFocus(m, c, vis, i) # {}}}
    ELSE {{ArgmaxFocus(m, c, vis)}}

\* The focus sets a Middle step can select.
FocusChoices(m, c, vis) ==
    IF UsesMultifocus(c, vis)
    THEN LET cand == {i \in Nodes(m) : EdgesOfFocus(m, c, vis, i) # {}}
         IN  IF Cardinality(cand) > c.num_nodes_for_multifocus
             THEN {F \in SUBSET cand : Cardinality(F) = c.num_nodes_for_multifocus}
             ELSE {cand}
    ELSE {{ArgmaxFocus(m, c, vis)}}

\* The outcomes of one trial: a candidate edge for every focus node.
TrialChoices(m, c, vis, foci) ==
    {a \in [foci -> MiddleEdges(m, c, vis)] :
        \A f \in foci : a[f] \in EdgesOfFocus(m, c, vis, f)}

\* num_unique_targets = len(np.unique(target_ndxs[focus_nodes])): the number
\* of distinct edge indices drawn for the foci.
NumUniqueTargets(a, foci) == Cardinality({a[f] : f \in foci})

\* Whether the focus selection draws from np.random.choice: the multi-focus
\* branch with more candidates than num_nodes_for_multifocus.
DropsExcessFoci(m, c, vis) ==
    /\ UsesMultifocus(c, vis)
    /\ Cardinality({i \in Nodes(m) : EdgesOfFocus(m, c, vis, i) # {}})
           > c.num_nodes_for_multifocus

\* The focus selection of the second run, when this run selects F.
TwinFocus(F) ==
    IF twin.same
    THEN \E F2 \in (IF DropsExcessFoci(mol, cfg, visited)
                    THEN FocusChoices(mol, cfg, visited)
                    ELSE {F}) :
             twin' = [twin EXCEPT !.focus_nodes = F2]
    ELSE UNCHANGED twin

\* The loop condition of generate_fragments.
LoopContinues(m, cnt, vis) == cnt < NumNodes(m) - 2 /\ Len(vis) < NumNodes(m)

MiddleBegin ==
    /\ fpc = "loop"
    /\ LoopContinues(mol, counter, visited)
    /\ IF MiddleRaises(mol, cfg, visited)
       THEN /\ fpc' = "raised"
            /\ ferr' = "ValueError"
            /\ UNCHANGED <<focus_nodes, twin>>
       ELSE /\ \E F \in FocusChoices(mol, cfg, visited) :
                   /\ focus_nodes' = F
                   /\ TwinFocus(F)
            /\ fpc' = "trials"
            /\ ferr' = ferr
    /\ trial' = 0
    /\ target_ndxs' = <<>>
    /\ best_num_targets' = 0
    /\ best_target_ndxs' = <<>>
    /\ UNCHANGED <<mol, num_graphs, cfg, first_atom, visited, counter, emitted>>
    /\ UNCHANGED <<gvars, svars, tvars>>

SampleTrial ==
    /\ fpc = "trials"
    /\ trial < NumTrials
    /\ \E a \in TrialChoices(mol, cfg, visited, focus_nodes) :
        /\ target_ndxs' = a
        /\ IF NumUniqueTargets(a, focus_nodes) > best_num_targets
           THEN /\ best_num_targets' = NumUniqueTargets(a, focus_nodes)
                /\ best_target_ndxs' = a
           ELSE UNCHANGED <<best_num_targets, best_target_ndxs>>
    /\ trial' = trial + 1
    /\ UNCHANGED <<mol, num_graphs, cfg, first_atom, fpc, visited, counter,
                   focus_nodes, emitted, ferr, twin>>
    /\ UNCHANGED <<gvars, svars, tvars>>

\* target_nodes = receivers[best_target_ndxs[focus_nodes]]: one per focus,
\* foci in ascending order.
MiddleTargetNodes(m, c, foci, best) ==
    [i \in 1..Cardinality(foci) |-> Receivers(m)[best[SortedSeq(foci)[i]]]]

\* Row i of target_nodes_all before padding: the targets of the i-th focus
\* that have the species of its drawn target, at most max_targets_per_graph.
MiddleTargetGroup(m, c, vis, focus_node, target_node) ==
    Take(SelectSeq(Masked(Receivers(m), EdgesOfFocus(m, c, vis, focus_node)),
                   LAMBDA t : Species(m, t) = Species(m, target_node)),
         c.max_targets_per_graph)

MiddleTargetNodesAll(m, c, vis, foci, best) ==
    [i \in 1..Cardinality(foci) |->
        PadZeros(MiddleTargetGroup(m, c, vis, SortedSeq(foci)[i],
                                   MiddleTargetNodes(m, c, foci, best)[i]),
                 c.max_targets_per_graph)]

MiddleTargetMask(m, c, vis, foci, best) ==
    [i \in 1..c.num_nodes_for_multifocus |->
        [k \in 1..c.max_targets_per_graph |->
            /\ i <= Cardinality(foci)
            /\ k <= Len(MiddleTargetGroup(m, c, vis, SortedSeq(foci)[i],
                                          MiddleTargetNodes(m, c, foci, best)[i]))]]

\* The nodes next_node is drawn from.
MiddleNextNodeChoices(m, c, foci, best) == Range(MiddleTargetNodes(m, c, foci, best))

\* A plausible slip: returning new_visited, the sorted union of the visited
\* nodes and all targets of the step, which the source computes and drops.
ExtendVisited_NewVisited(vis, target_nodes, next_node) ==
    SortedSeq(Range(vis) \cup Range(target_nodes))

\* The visited list a Middle step returns: the old list with next_node
\* appended.
ExtendVisited(vis, target_nodes, next_node) == Append(vis, next_node)

\* The fragment a Middle step builds for the foci and the kept trial.
MiddleFragment(m, c, vis, foci, best) ==
    IntoFragment(m, c, vis, foci, MiddleSpeciesProbability(m, c, vis),
                 MiddleTargetNodesAll(m, c, vis, foci, best),
                 MiddleTargetMask(m, c, vis, foci, best), FALSE)

\* The end of the Middle step in the second run: once it has built its
\* fragment from other foci its state is no longer that of this run.
TwinMiddleEnd ==
    twin' = [twin EXCEPT !.same = twin.same /\ twin.focus_nodes = focus_nodes]

MiddleEnd ==
    /\ fpc = "trials"
    /\ trial = NumTrials
    /\ LET target_nodes_all ==
               MiddleTargetNodesAll(mol, cfg, visited, focus_nodes, best_target_ndxs)
           target_mask ==
               MiddleTargetMask(mol, cfg, visited, focus_nodes, best_target_ndxs)
       IN  IF ~IntoFragmentOk(mol, cfg, visited, focus_nodes,
                              target_nodes_all, target_mask, FALSE)
           THEN /\ fpc' = "raised"
                /\ ferr' = "AssertionError"
                /\ UNCHANGED <<visited, counter, emitted>>
           ELSE /\ \E next_node \in
                       MiddleNextNodeChoices(mol, cfg, focus_nodes, best_target_ndxs) :
                       visited' = ExtendVisited(visited,
                           MiddleTargetNodes(mol, cfg, focus_nodes, best_target_ndxs),
                           next_node)
                /\ emitted' = Append(emitted,
                       MiddleFragment(mol, cfg, visited, focus_nodes,
                                      best_target_ndxs))
                /\ counter' = counter + 1
                /\ fpc' = "loop"
                /\ ferr' = ferr
    /\ TwinMiddleEnd
    /\ UNCHANGED <<mol, num_graphs, cfg, first_atom, focus_nodes, trial, target_ndxs,
                   best_num_targets, best_target_ndxs>>
    /\ UNCHANGED <<gvars, svars, tvars>>

(***************************************************************************)
(* Fragment sequencer: end of generate_fragments, _make_last_fragment      *)
(***************************************************************************)
\* visited of _make_last_fragment: np.arange(n_nodes).
AllNodesSeq(m) == [i \in 1..NumNodes(m) |-> i - 1]

\* target_nodes of _make_last_fragment: all zeros.
ZeroTargetNodes(c) ==
    [i \in 1..c.num_nodes_for_multifocus |->
        [k \in 1..c.max_targets_per_graph |-> 0]]

MakeLastFragment ==
    /\ fpc = "loop"
    /\ ~LoopContinues(mol, counter, visited)
    /\ IF Len(visited) # NumNodes(mol)
          \/ ~IntoFragmentOk(mol, cfg, AllNodesSeq(mol), {},
                             ZeroTargetNodes(cfg), ZeroMask(cfg), TRUE)
       THEN /\ fpc' = "raised"
            /\ ferr' = "AssertionError"
            /\ UNCHANGED emitted
       ELSE /\ emitted' = Append(emitted,
                   IntoFragment(mol, cfg, AllNodesSeq(mol), {},
                                ZeroSpeciesProbability(mol),
                                ZeroTargetNodes(cfg), ZeroMask(cfg), TRUE))
            /\ fpc' = "done"
            /\ ferr' = ferr
    /\ UNCHANGED <<mol, num_graphs, cfg, first_atom, visited, counter, focus_nodes,
                   trial, target_ndxs, best_num_targets, best_target_ndxs, twin>>
    /\ UNCHANGED <<gvars, svars, tvars>>

(***************************************************************************)
(* Fragment sequencer: specification                                       *)
(***************************************************************************)
\* The scheduler's variables while only the sequencer runs.
GenIdle ==
    /\ gpc = "idle"
    /\ num_seeds = 0
    /\ fragment_pool = <<>>
    /\ acc = <<>>
    /\ batch = <<>>
    /\ exhausted = FALSE
    /\ generated_molecules = <<>>
    /\ last_round = <<>>
    /\ gerr = "none"
    /\ rounds = <<>>

\* No call of subgraph is followed.
SubIdle ==
    /\ sub_pc = "idle"
    /\ sub_graph = <<>>
    /\ sub_nodes = <<>>
    /\ sub_result = <<>>

\* No call of train_and_evaluate is followed.
TrainIdle ==
    /\ tpc = "idle"
    /\ tcfg = <<>>
    /\ initial_step = 0
    /\ step = NoneValue
    /\ state = 0
    /\ best_state = 0
    /\ step_for_best_state = 0
    /\ min_val_loss = 0
    /\ evaluations = <<>>
    /\ train_iter = 0
    /\ returned = NoneValue
    /\ terr = "none"

\* generate_fragments called on a graph and with arguments drawn from the
\* given sets: the sequencer's variables.
InitSeqVars(molecules, graph_counts, configs, second_run) ==
    /\ cfg \in configs
    /\ mol \in {Graphs[i, cfg.cutoff] : i \in molecules}
    /\ num_graphs \in graph_counts
    /\ fpc = "start"
    /\ first_atom = NoneValue
    /\ visited = <<>>
    /\ counter = 0
    /\ focus_nodes = {}
    /\ trial = 0
    /\ target_ndxs = <<>>
    /\ best_num_targets = 0
    /\ best_target_ndxs = <<>>
    /\ emitted = <<>>
    /\ ferr = "none"
    /\ twin = second_run

\* generate_fragments alone.
InitSeqWith(molecules, graph_counts, configs, second_run) ==
    /\ InitSeqVars(molecules, graph_counts, configs, second_run)
    /\ GenIdle
    /\ SubIdle
    /\ TrainIdle

\* generate_fragments called on a single molecule with arguments that pass
\* its checks.
InitSeq == InitSeqWith(1..Len(Molecules), {1}, Configs, NoTwin)

NextSeq ==
    \/ CheckArguments
    \/ MakeFirstFragment
    \/ MiddleBegin
    \/ SampleTrial
    \/ MiddleEnd
    \/ MakeLastFragment

SpecSeq == InitSeq /\ [][NextSeq]_vars

\* Two runs of generate_fragments with the same key, in "nn" mode with
\* heavy_first off.
TwinConfigs == {c \in Configs : c.mode = "nn" /\ ~c.heavy_first}

InitTwin == InitSeqWith(1..Len(Molecules), {1}, TwinConfigs, TwinInit)

SpecTwin == InitTwin /\ [][NextSeq]_vars

(***************************************************************************)
(* Claims about the fragment sequencer                                     *)
(***************************************************************************)
\* The visited set of an emitted fragment: the nodes it was built over.
VisitedSetOf(frag) == Range(frag.nodes)

\* C1: the emitted sequence holds a stop=True fragment only once the run has
\* finished without error, and then exactly one: the last fragment emitted;
\* every fragment before it has stop=False.
C1_OneTerminalLast ==
    /\ fpc = "done" =>
          /\ Len(emitted) >= 1
          /\ emitted[Len(emitted)].stop
          /\ \A i \in 1..(Len(emitted) - 1) : ~emitted[i].stop
    /\ fpc # "done" => \A i \in 1..Len(emitted) : ~emitted[i].stop

C1_Witness ==
    /\ fpc = "done"
    /\ Len(emitted) >= 3
    /\ emitted[Len(emitted)].stop

\* C2: when the terminal fragment is emitted, the visited list holds every
\* node index 0..n-1 of the molecule.
C2_VisitedAllAtTerminal ==
    fpc = "done" => Range(visited) = Nodes(mol)

\* C3: the visited set of every non-terminal fragment is a strict subset of
\* the visited set of the next fragment.
C3_StrictGrowth ==
    \A i \in 1..(Len(emitted) - 1) :
        /\ VisitedSetOf(emitted[i]) \subseteq VisitedSetOf(emitted[i + 1])
        /\ VisitedSetOf(emitted[i]) # VisitedSetOf(emitted[i + 1])

\* C4: a run that ends without error has emitted exactly n fragments, the
\* i-th with i nodes, the first n-1 of them growth fragments and the last
\* the terminal one.
C4_FragmentCount ==
    fpc = "done" =>
        /\ Len(emitted) = NumNodes(mol)
        /\ \A i \in 1..Len(emitted) :
               /\ emitted[i].n_node = i
               /\ emitted[i].stop = (i = NumNodes(mol))

\* The chiral tetris piece in nn mode with tolerance 0.01, fully sequenced.
C4_Witness ==
    /\ fpc = "done"
    /\ mol.id = 1
    /\ cfg.mode = "nn"
    /\ cfg.nn_tolerance = 1
    /\ Len(emitted) = 4
    /\ [i \in 1..4 |-> emitted[i].n_node] = <<1, 2, 3, 4>>

\* C11: a Middle step that returns leaves the visited set equal to the
\* previous visited set united with the target nodes drawn for its foci.
C11_VisitedUnion ==
    [][(fpc = "trials" /\ fpc' = "loop") =>
          Range(visited') =
              Range(visited) \cup
              Range(MiddleTargetNodes(mol, cfg, focus_nodes, best_target_ndxs))]_vars

\* The valid targets recorded in row r of a fragment.
ValidTargets(frag, r) ==
    {frag.target_nodes[r][k] :
        k \in {j \in 1..Len(frag.target_nodes[r]) : frag.target_positions_mask[r][j]}}

\* C12: the second visited node is one of the targets chosen for the first
\* focus (the valid targets of row 0 of the first fragment).
C12_SecondNodeIsTarget ==
    (Len(emitted) >= 1 /\ Len(visited) >= 2) =>
        visited[2] \in ValidTargets(emitted[1], 1)

\* The visited nodes with at least one candidate edge in a Middle step.
FocusCandidates(m, c, vis) == {i \in Nodes(m) : EdgesOfFocus(m, c, vis, i) # {}}

\* C13: the foci of a Middle step are selected by the multi-focus rule (all
\* candidates, at most num_nodes_for_multifocus of them) exactly when the
\* number of visited nodes has reached num_nodes_for_multifocus; below it
\* the single focus is the node with the most candidate edges.
C13_MultifocusThreshold ==
    fpc = "trials" =>
        LET cand == FocusCandidates(mol, cfg, visited)
        IN  IF Len(visited) >= cfg.num_nodes_for_multifocus
            THEN /\ focus_nodes \subseteq cand
                 /\ Cardinality(focus_nodes)
                        = Min({Cardinality(cand), cfg.num_nodes_for_multifocus})
            ELSE focus_nodes = {ArgmaxFocus(mol, cfg, visited)}

\* The number of distinct target nodes the edges of a trial lead to.
DistinctTargetNodes(m, c, a, foci) ==
    Cardinality({Receivers(m)[a[f]] : f \in foci})

\* C14: the kept trial covers the maximum number of distinct target nodes
\* among the trials drawn: no trial drawn so far reaches more distinct target
\* nodes than the kept one.
C14_BestTrialKept ==
    (fpc = "trials" /\ trial >= 1) =>
        DistinctTargetNodes(mol, cfg, best_target_ndxs, focus_nodes)
            >= DistinctTargetNodes(mol, cfg, target_ndxs, focus_nodes)

C16_SlotSpecies ==
    \A i \in 1..Len(emitted) :
        \A r \in 1..Len(emitted[i].target_nodes) :
            \A t \in ValidTargets(emitted[i], r) :
                Species(mol, t) = emitted[i].target_species[r]

\* A fragment whose first slot holds two valid targets of a heavy species.
C16_Witness ==
    \E i \in 1..Len(emitted) :
        /\ Cardinality(ValidTargets(emitted[i], 1)) = 2
        /\ emitted[i].target_species[1] = 1

\* C17: in every emitted fragment, every valid target offset is no longer
\* than the cutoff radius of the graph, and no longer than max_radius in
\* "radius" mode.
C17_OffsetsWithinCutoff ==
    \A i \in 1..Len(emitted) :
        \A r \in 1..Len(emitted[i].target_positions) :
            \A k \in 1..Len(emitted[i].target_positions[r]) :
                emitted[i].target_positions_mask[r][k] =>
                    /\ VecNorm(emitted[i].target_positions[r][k]) <= cfg.cutoff
                    /\ cfg.mode = "radius" =>
                           VecNorm(emitted[i].target_positions[r][k]) <= cfg.max_radius

\* A "radius" mode fragment that records a valid target at distance sqrt(2),
\* beyond the nearest neighbours.
C17_Witness ==
    /\ cfg.mode = "radius"
    /\ \E i \in 1..Len(emitted) :
           \E r \in 1..Len(emitted[i].target_positions) :
               \E k \in 1..Len(emitted[i].target_positions[r]) :
                   /\ emitted[i].target_positions_mask[r][k]
                   /\ VecNorm(emitted[i].target_positions[r][k]) > 100

\* C18: in every emitted fragment, focus_and_target_species_probs is zero
\* at every node that is not marked in focus_mask.
C18_ProbsOnlyAtFoci ==
    \A i \in 1..Len(emitted) :
        \A k \in 1..Len(emitted[i].nodes) :
            emitted[i].nodes[k] \notin emitted[i].focus_mask =>
                \A sp \in SpeciesIds :
                    emitted[i].focus_and_target_species_probs[k][sp].num = 0

\* C19: the terminal fragment has stop=True, an empty focus mask, zero
\* target_positions, target_species, target_positions_mask and
\* focus_and_target_species_probs, and holds all nodes of the input graph in
\* their original order.
C19_TerminalZeroed ==
    fpc = "done" =>
        LET last == emitted[Len(emitted)]
        IN  /\ last.stop
            /\ last.focus_mask = {}
            /\ last.nodes = AllNodesSeq(mol)
            /\ \A r \in 1..cfg.num_nodes_for_multifocus :
                   /\ last.target_species[r] = 0
                   /\ \A k \in 1..cfg.max_targets_per_graph :
                          /\ last.target_positions[r][k] = Zero3
                          /\ ~last.target_positions_mask[r][k]
            /\ \A k \in 1..Len(last.nodes) :
                   \A sp \in SpeciesIds :
                       last.focus_and_target_species_probs[k][sp].num = 0

\* C20: a second run started with the same key on the same molecule with
\* the same arguments emits the same fragments: at the end of a Middle step
\* that both runs entered in the same state, whatever trial the second run
\* kept for its foci, the fragment it builds is the one this run builds.
C20_Deterministic ==
    (fpc = "trials" /\ trial = NumTrials /\ twin.same) =>
        \A a2 \in TrialChoices(mol, cfg, visited, twin.focus_nodes) :
            (twin.focus_nodes = focus_nodes => a2 = best_target_ndxs) =>
                MiddleFragment(mol, cfg, visited, twin.focus_nodes, a2)
                    = MiddleFragment(mol, cfg, visited, focus_nodes, best_target_ndxs)

\* The (species, position) pairs of a list of atoms, by index.
AtomPairs(species, positions) ==
    [k \in 1..Len(positions) |-> <<species[k], positions[k]>>]

\* How often a value occurs in a list.
Occurrences(xs, x) == Cardinality({k \in 1..Len(xs) : xs[k] = x})

\* C21: the atoms of the terminal fragment, read in its node index order,
\* are the (species, position) pairs of the input molecule: as many atoms,
\* and every pair as often as in the molecule.
C21_TerminalRoundTrip ==
    fpc = "done" =>
        LET last == emitted[Len(emitted)]
            got == AtomPairs(last.species, last.positions)
            want == AtomPairs(mol.species, mol.positions)
        IN  /\ Len(last.species) = NumNodes(mol)
            /\ Len(last.positions) = NumNodes(mol)
            /\ \A x \in Range(got) \cup Range(want) :
                   Occurrences(got, x) = Occurrences(want, x)

\* The terminal fragment of the three-atom line, whose atoms have three
\* different species.
C21_Witness ==
    /\ fpc = "done"
    /\ mol.id = 2
    /\ emitted[Len(emitted)].stop
    /\ emitted[Len(emitted)].species = <<1, 0, 2>>

\* The ValueErrors of the argument checks of generate_fragments.
ArgumentErrors ==
    {"ValueError: mode must be either 'nn' or 'radius'.",
     "ValueError: max_radius must be specified for mode 'radius'.",
     "ValueError: max_radius specified, but mode is not 'radius'.",
     "ValueError: nn_tolerance must be specified for mode 'nn'.",
     "ValueError: nn_tolerance specified, but mode is not 'nn'."}

\* C23: generate_fragments ends with one of the argument ValueErrors, and
\* with no fragment emitted, when mode is neither "nn" nor "radius", when
\* mode is "radius" and max_radius is None, when max_radius is given and
\* mode is not "radius", when mode is "nn" and nn_tolerance is None, or when
\* nn_tolerance is given and mode is not "nn"; for every other combination
\* none of these errors is raised.
C23_ArgumentChecks ==
    fpc \notin {"idle", "start"} =>
        IF \/ cfg.mode \notin {"nn", "radius"}
           \/ cfg.mode = "radius" /\ cfg.max_radius = NoneValue
           \/ cfg.max_radius # NoneValue /\ cfg.mode # "radius"
           \/ cfg.mode = "nn" /\ cfg.nn_tolerance = NoneValue
           \/ cfg.nn_tolerance # NoneValue /\ cfg.mode # "nn"
        THEN /\ fpc = "raised"
             /\ ferr \in ArgumentErrors
             /\ emitted = <<>>
        ELSE ferr \notin ArgumentErrors

\* "radius" mode with max_radius and, wrongly, nn_tolerance given: only the
\* last check rejects the call.
C23_Witness ==
    /\ fpc = "raised"
    /\ cfg.mode = "radius"
    /\ cfg.max_radius # NoneValue
    /\ cfg.nn_tolerance # NoneValue
    /\ ferr = "ValueError: nn_tolerance specified, but mode is not 'nn'."
    /\ emitted = <<>>

\* The edges of a mask that pass the nn/radius filter (none of an empty mask).
AdmissibleEdges(m, c, mask) == IF mask = {} THEN {} ELSE DistanceFilter(m, c, mask)

\* C24: a step that finds no admissible target for the first atom, or no
\* candidate edge from the visited to the unvisited nodes in a Middle step,
\* ends generate_fragments with ValueError and emits nothing; once an error
\* was raised no fragment is emitted any more.
C24_NoTargetRaises ==
    [][/\ (fpc = "first"
           /\ AdmissibleEdges(mol, cfg, FirstMask(mol, cfg, first_atom')) = {})
          => (fpc' = "raised" /\ ferr' = "ValueError" /\ emitted' = emitted)
       /\ (fpc = "loop" /\ LoopContinues(mol, counter, visited)
           /\ AdmissibleEdges(mol, cfg, MiddleMask(mol, cfg, visited)) = {})
          => (fpc' = "raised" /\ ferr' = "ValueError" /\ emitted' = emitted)
       /\ fpc = "raised" => (fpc' = "raised" /\ emitted' = emitted)]_vars

\* The line with a gap in "radius" mode: after the first fragment no
\* unvisited atom is within max_radius of a visited one, and the run has
\* ended with ValueError, without a terminal fragment.
C24_Witness ==
    /\ fpc = "raised"
    /\ ferr = "ValueError"
    /\ mol.id = 4
    /\ cfg.mode = "radius"
    /\ Len(emitted) = 1
    /\ ~emitted[1].stop
    /\ AdmissibleEdges(mol, cfg, MiddleMask(mol, cfg, visited)) = {}

\* C28: with heavy_first=True, in every run that reaches the terminal
\* fragment every heavy atom (species index > 0) enters the visited list
\* before any hydrogen (species index 0) does: wherever a hydrogen stands in
\* the list, every heavy atom of the molecule stands before it.
C28_HydrogensLast ==
    (fpc = "done" /\ cfg.heavy_first) =>
        \A j \in 1..Len(visited) :
            Species(mol, visited[j]) = 0 =>
                \A h \in {i \in Nodes(mol) : Species(mol, i) > 0} :
                    \E k \in 1..(j - 1) : visited[k] = h

\* A reachable state: the run of the three-atom line C-H-N that starts from
\* the carbon and visits the hydrogen before the nitrogen has reached its
\* terminal fragment; no padding entry was drawn.
C28_HydrogenBeforeHeavy ==
    /\ fpc = "done"
    /\ cfg.heavy_first
    /\ cfg.mode = "nn"
    /\ cfg.max_targets_per_graph = 1
    /\ cfg.num_nodes_for_multifocus = 1
    /\ mol.id = 2
    /\ visited = <<0, 1, 2>>

(***************************************************************************)
(* Generation scheduler: append_predictions_to_fragment                    *)
(*                                                                         *)
(* Positions are on one axis, in units of half the duplicate threshold     *)
(* (eps = 1e-4 is 2 units), so the norm of a position is its absolute      *)
(* value. A fragment is [seed, atoms]; an atom is [pos, species].          *)
(***************************************************************************)
\* eps passed by append_predictions (1e-4), in position units.
Eps == 2

\* max_num_atoms: 35 or 60 in the source, by dataset; the model runs with a
\* small cap.
MaxNumAtoms == 3

\* Numbers of candidate atoms the predictor returns for a fragment.
CandidateCounts == {1, 2}

\* Numbers of seeds submitted.
SeedCounts == {1, 2}

\* Predicted relative offsets: on the focus, nearer than eps, farther.
Offsets == {0, 1, 4}

\* Predicted species indices.
CandidateSpecies == {1}

\* Initial molecules: one atom at the origin, or one atom away from it.
InitMoleculeChoices == { << [pos |-> 0, species |-> 1] >>,
                         << [pos |-> 4, species |-> 1] >> }

Abs(x) == IF x < 0 THEN 0 - x ELSE x

\* The predictions for a fragment with n atoms: a stop flag and a list of
\* candidates, each a focus index, a relative offset and a species.
Predictions(n) ==
    {[stop |-> st, candidates |-> cs] :
        st \in BOOLEAN,
        cs \in UNION {[1..k -> [focus : 0..(n - 1), offset : Offsets,
                                species : CandidateSpecies]] :
                      k \in CandidateCounts}}

\* extra_positions and extra_species before filtering: offset plus the
\* position of the focus.
ExtraAtoms(atoms, pred) ==
    [i \in 1..Len(pred.candidates) |->
        [pos |-> pred.candidates[i].offset + atoms[pred.candidates[i].focus + 1].pos,
         species |-> pred.candidates[i].species]]

\* The filter: a candidate is dropped when eps > norm(position) > 0.
KeepsCandidate(pos, eps) == ~(eps > Abs(pos) /\ Abs(pos) > 0)

\* The candidates that survive the filter, in order.
Survivors(atoms, pred, eps) ==
    SelectSeq(ExtraAtoms(atoms, pred), LAMBDA a : KeepsCandidate(a.pos, eps))

\* np.concatenate of the [n, 3] positions with np.array([]) raises
\* ValueError: no candidate survived.
AppendRaises(atoms, pred, eps) == Survivors(atoms, pred, eps) = <<>>

\* extra_len = min(len(extra_positions), max_len)
ExtraLen(num_survivors, max_len) ==
    IF num_survivors < max_len THEN num_survivors ELSE max_len

\* A plausible slip: the grown fragment is returned without the globals
\* of the old one, so every fragment reads as seed 0.
CarrySeed_Dropped(fragment) == 0

\* A plausible slip: the _replace left out, so the grown fragment keeps the
\* globals ase_atoms_to_jraph_graph gave it (None).
CarrySeed_Fresh(fragment) == NoneValue

\* new_fragment._replace(globals=fragment.globals): the seed tag is carried.
CarrySeed(fragment) == fragment.seed

\* atomic_numbers of append_predictions_to_fragment.
AtomicNumbers == <<1, 6, 7, 8, 9>>

\* A plausible slip: searchsorted with side='right', the number of entries
\* less than or equal to the value.
SearchSorted_Right(sorted, value) ==
    Cardinality({k \in 1..Len(sorted) : sorted[k] <= value})

\* np.searchsorted(sorted, value): the number of entries less than the value.
SearchSorted(sorted, value) ==
    Cardinality({k \in 1..Len(sorted) : sorted[k] < value})

\* The atoms of the graph built from ase.Atoms(numbers =
\* atomic_numbers[new_species], positions = new_positions): the species of an
\* atom is the index of its atomic number in atomic_numbers.
RebuiltAtoms(atoms) ==
    [k \in 1..Len(atoms) |->
        [pos |-> atoms[k].pos,
         species |-> SearchSorted(AtomicNumbers, AtomicNumbers[atoms[k].species + 1])]]

\* The grown fragment: the old atoms followed by the first extra_len
\* survivors, rebuilt as a graph, with the seed tag of the old fragment.
AppendPredictionsToFragment(fragment, pred, max_len, eps) ==
    LET surv == Survivors(fragment.atoms, pred, eps)
    IN  [seed |-> CarrySeed(fragment),
         atoms |-> RebuiltAtoms(fragment.atoms
                                \o Take(surv, ExtraLen(Len(surv), max_len)))]

\* A plausible slip: finalizing only beyond the cap.
ShouldFinalize_Beyond(stop, num_atoms_in_fragment, max_num_atoms) ==
    stop \/ num_atoms_in_fragment > max_num_atoms

\* if stop or num_atoms_in_fragment >= max_num_atoms
ShouldFinalize(stop, num_atoms_in_fragment, max_num_atoms) ==
    stop \/ num_atoms_in_fragment >= max_num_atoms

(***************************************************************************)
(* Generation scheduler: generate_molecules                                *)
(***************************************************************************)
\* The sequencer's variables while only the scheduler runs.
SeqIdle ==
    /\ mol = <<>>
    /\ num_graphs = 1
    /\ cfg = <<>>
    /\ fpc = "idle"
    /\ first_atom = NoneValue
    /\ visited = <<>>
    /\ counter = 0
    /\ focus_nodes = {}
    /\ trial = 0
    /\ target_ndxs = <<>>
    /\ best_num_targets = 0
    /\ best_target_ndxs = <<>>
    /\ emitted = <<>>
    /\ ferr = "none"
    /\ twin = NoTwin

\* A plausible slip: every initial fragment tagged with seed 0.
InitialPool_Untagged(init_molecule, n_seeds) ==
    [i \in 1..n_seeds |-> [seed |-> 0, atoms |-> init_molecule]]

\* The queue after the seeds are submitted: one fragment per seed, tagged
\* with its seed id, all built from the same initial molecule
\* (init_molecules given as a string).
InitialPool(init_molecule, n_seeds) ==
    [i \in 1..n_seeds |-> [seed |-> i - 1, atoms |-> init_molecule]]

\* generate_molecules called with n_seeds seeds.
InitGenWith(n_seeds) ==
    /\ SeqIdle
    /\ SubIdle
    /\ TrainIdle
    /\ num_seeds = n_seeds
    /\ \E init_molecule \in InitMoleculeChoices :
           fragment_pool = InitialPool(init_molecule, n_seeds)
    /\ gpc = "while"
    /\ acc = <<>>
    /\ batch = <<>>
    /\ exhausted = FALSE
    /\ generated_molecules = <<>>
    /\ last_round = <<>>
    /\ gerr = "none"
    /\ rounds = [seed \in 0..(n_seeds - 1) |-> 0]

\* while len(generated_molecules) < num_seeds and fragment_pool.qsize() > 0
WhileContinues(generated, pool, n_seeds) ==
    Len(generated) < n_seeds /\ Len(pool) > 0

\* The loop condition holds: a new dynamically_batch generator is started
\* over a new queue iterator.
GenEnterLoop ==
    /\ gpc = "while"
    /\ WhileContinues(generated_molecules, fragment_pool, num_seeds)
    /\ gpc' = "next_batch"
    /\ acc' = <<>>
    /\ exhausted' = FALSE
    /\ UNCHANGED <<num_seeds, rounds, fragment_pool, batch, generated_molecules,
                   last_round, gerr>>
    /\ UNCHANGED <<fvars, svars, tvars>>

\* An entry (stop, fragment) of generated_molecules, kept as the stop tag,
\* the seed tag of the fragment and its number of atoms (the atoms of the
\* fragment finalized last are in last_round.new_fragment).
Completed(stop, fragment) ==
    [stop |-> stop, seed |-> fragment.seed, n_node |-> Len(fragment.atoms)]

\* The entries the post-loop code appends: every fragment left in the
\* queue, as (False, fragment).
Unfinished(pool) == [i \in 1..Len(pool) |-> Completed(FALSE, pool[i])]

\* The loop condition fails: the code after the loop empties the queue into
\* generated_molecules and the results are written out.
GenLeaveLoop ==
    /\ gpc = "while"
    /\ ~WhileContinues(generated_molecules, fragment_pool, num_seeds)
    /\ generated_molecules' = generated_molecules \o Unfinished(fragment_pool)
    /\ fragment_pool' = <<>>
    /\ gpc' = "done"
    /\ UNCHANGED <<num_seeds, rounds, acc, batch, exhausted, last_round, gerr>>
    /\ UNCHANGED <<fvars, svars, tvars>>

\* jraph.dynamically_batch with n_graph = 2 over _make_queue_iterator, run
\* up to its next yield: a batch holds one real graph, and the batcher reads
\* one fragment ahead before it yields the one it holds. When the queue is
\* found empty the iterator returns, and the held fragment is the last batch.
GenNextBatch ==
    /\ gpc = "next_batch"
    /\ LET held == IF acc = <<>> THEN <<Head(fragment_pool)>> ELSE acc
           pool == IF acc = <<>> THEN Tail(fragment_pool) ELSE fragment_pool
       IN  /\ batch' = held
           /\ IF Len(pool) > 0
              THEN /\ acc' = <<Head(pool)>>
                   /\ fragment_pool' = Tail(pool)
                   /\ exhausted' = FALSE
              ELSE /\ acc' = <<>>
                   /\ fragment_pool' = pool
                   /\ exhausted' = TRUE
    /\ gpc' = "predict"
    /\ UNCHANGED <<num_seeds, rounds, generated_molecules, last_round, gerr>>
    /\ UNCHANGED <<fvars, svars, tvars>>

\* A plausible slip: on stop the fragment that was submitted to the
\* predictor is finalized, without the atoms predicted in the round.
FinalizedFragment_Submitted(stop, fragment, new_fragment) ==
    IF stop THEN fragment ELSE new_fragment

\* generated_molecules.append((stop, new_fragment)): the fragment finalized
\* is the grown one, whether or not stop was predicted.
FinalizedFragment(stop, fragment, new_fragment) == new_fragment

\* A plausible slip: the grown fragment is not put back.
QueuePut_Lost(pool, fragment) == pool

\* A plausible slip: the grown fragment put at the front of the queue.
QueuePut_Front(pool, fragment) == <<fragment>> \o pool

\* fragment_pool.put(new_fragment): queue.SimpleQueue is first in, first
\* out, the fragment goes to the end.
QueuePut(pool, fragment) == Append(pool, fragment)

\* One growth round: the predictor is applied to the batch and its
\* predictions are appended to the fragment, which is then finalized or put
\* back on the queue. The for loop over the batches ends after the last batch.
GenRound ==
    /\ gpc = "predict"
    /\ LET fragment == batch[1]
       IN  \E pred \in Predictions(Len(fragment.atoms)) :
           IF AppendRaises(fragment.atoms, pred, Eps)
           THEN /\ gpc' = "raised"
                /\ gerr' = "ValueError"
                /\ last_round' = [fragment |-> fragment, stop |-> pred.stop,
                                  num_survivors |-> 0,
                                  new_fragment |-> fragment]
                /\ UNCHANGED <<fragment_pool, generated_molecules, batch>>
           ELSE LET new_fragment ==
                        AppendPredictionsToFragment(fragment, pred, MaxNumAtoms, Eps)
                IN  /\ IF ShouldFinalize(pred.stop, Len(new_fragment.atoms), MaxNumAtoms)
                       THEN /\ generated_molecules' =
                                   Append(generated_molecules,
                                          Completed(pred.stop,
                                              FinalizedFragment(pred.stop, fragment,
                                                                new_fragment)))
                            /\ UNCHANGED fragment_pool
                       ELSE /\ fragment_pool' = QueuePut(fragment_pool, new_fragment)
                            /\ UNCHANGED generated_molecules
                    /\ last_round' = [fragment |-> fragment, stop |-> pred.stop,
                                      num_survivors |->
                                          Len(Survivors(fragment.atoms, pred, Eps)),
                                      new_fragment |-> new_fragment]
                    /\ batch' = <<>>
                    /\ gpc' = IF exhausted THEN "while" ELSE "next_batch"
                    /\ gerr' = gerr
    /\ rounds' = [rounds EXCEPT ![batch[1].seed] = @ + 1]
    /\ UNCHANGED <<num_seeds, acc, exhausted>>
    /\ UNCHANGED <<fvars, svars, tvars>>

NextGen ==
    \/ GenEnterLoop
    \/ GenLeaveLoop
    \/ GenNextBatch
    \/ GenRound

InitGen == \E n_seeds \in SeedCounts : InitGenWith(n_seeds)

SpecGen == InitGen /\ [][NextGen]_vars

\* Three seeds, so that a fragment waits in the queue while one is being
\* grown and another is held by the batcher.
InitGen3 == InitGenWith(3)

SpecGen3 == InitGen3 /\ [][NextGen]_vars

(***************************************************************************)
(* Claims about the generation scheduler                                   *)
(***************************************************************************)
\* The seed ids submitted.
SeedIds == 0..(num_seeds - 1)

\* The fragments waiting for their next round: in the queue, held by the
\* batcher, or in the batch being grown.
Waiting == Range(fragment_pool) \cup Range(acc) \cup Range(batch)

\* C5: when generate_molecules finishes, generated_molecules holds exactly
\* one entry for every seed id submitted.
C5_OnePerSeed ==
    gpc = "done" =>
        /\ Len(generated_molecules) = num_seeds
        /\ \A s \in SeedIds :
               Cardinality({i \in 1..Len(generated_molecules) :
                               generated_molecules[i].seed = s}) = 1

C5_Witness ==
    /\ gpc = "done"
    /\ num_seeds = 2
    /\ \E i, j \in 1..Len(generated_molecules) :
           generated_molecules[i].stop /\ ~generated_molecules[j].stop

\* C6: no fragment that is completed or re-enqueued has more than
\* max_num_atoms atoms.
C6_AtomCap ==
    /\ \A i \in 1..Len(generated_molecules) :
           generated_molecules[i].n_node <= MaxNumAtoms
    /\ \A f \in Waiting : Len(f.atoms) <= MaxNumAtoms

\* C7: after a growth round (one in which append_predictions returned a
\* grown fragment) that fragment is the newest entry of generated_molecules,
\* tagged with the round's stop flag, exactly when stop was predicted or it
\* has max_num_atoms atoms or more; otherwise it waits for its next round and
\* its seed has no entry in generated_molecules.
C7_Routing ==
    (last_round # <<>> /\ last_round.num_survivors > 0) =>
        LET grown == last_round.new_fragment
            finalized == last_round.stop \/ Len(grown.atoms) >= MaxNumAtoms
            entries == {i \in 1..Len(generated_molecules) :
                           generated_molecules[i].seed = grown.seed}
        IN  IF finalized
            THEN /\ generated_molecules # <<>>
                 /\ generated_molecules[Len(generated_molecules)]
                        = [stop |-> last_round.stop, seed |-> grown.seed,
                           n_node |-> Len(grown.atoms)]
                 /\ \A f \in Waiting : f.seed # grown.seed
            ELSE /\ grown \in Waiting
                 /\ entries = {}

\* A molecule finalized only because of the atom cap, tagged stop=False.
C7_Witness ==
    /\ last_round # <<>>
    /\ last_round.num_survivors > 0
    /\ ~last_round.stop
    /\ Len(last_round.new_fragment.atoms) >= MaxNumAtoms
    /\ generated_molecules # <<>>
    /\ ~generated_molecules[Len(generated_molecules)].stop

\* C8: a round in which no candidate survives the filter raises no error
\* and carries the fragment forward with the atoms and seed tag it had.
C8_ZeroSurvivorsCarried ==
    (last_round # <<>> /\ last_round.num_survivors = 0) =>
        /\ gerr = "none"
        /\ gpc # "raised"
        /\ last_round.new_fragment = last_round.fragment
        /\ ~last_round.stop => last_round.new_fragment \in Waiting

\* C9: once the main loop has ended, every fragment that was still in the
\* queue has been appended to generated_molecules (with stop=False), the
\* queue is empty and there are num_seeds results.
C9_LeftoversFinalized ==
    gpc \in {"done", "raised"} =>
        /\ fragment_pool = <<>>
        /\ Len(generated_molecules) = num_seeds

\* C10: no atom appended in a round lies nearer than eps to, but not on, an
\* atom the fragment already had.
C10_NearDuplicateDropped ==
    (last_round # <<>> /\ last_round.num_survivors > 0) =>
        LET old == last_round.fragment.atoms
            new == last_round.new_fragment.atoms
        IN  \A k \in (Len(old) + 1)..Len(new) :
                \A j \in 1..Len(old) :
                    ~(Abs(new[k].pos - old[j].pos) > 0
                      /\ Abs(new[k].pos - old[j].pos) < Eps)

\* A growth round in which the predictor either sets stop or yields at least
\* one candidate that survives the filter.
GenRoundProductive ==
    /\ GenRound
    /\ (last_round'.stop \/ last_round'.num_survivors > 0)

NextGenProductive ==
    \/ GenEnterLoop
    \/ GenLeaveLoop
    \/ GenNextBatch
    \/ GenRoundProductive

\* generate_molecules with such a predictor. The function is one sequential
\* loop, so a step that can be taken is taken.
SpecGenProductive ==
    InitGen /\ [][NextGenProductive]_vars /\ WF_vars(NextGenProductive)

\* The numbers of atoms of the initial molecules.
InitialAtomCounts == {Len(init_molecule) : init_molecule \in InitMoleculeChoices}

\* No seed has gone through more than (max_num_atoms - its initial atom
\* count) rounds.
RoundsBounded ==
    \A seed \in DOMAIN rounds : \A n \in InitialAtomCounts :
        rounds[seed] <= MaxNumAtoms - n

\* generate_molecules has returned with one entry for every seed.
AllSeedsFinalized ==
    /\ gpc = "done"
    /\ \A seed \in DOMAIN rounds :
           \E i \in 1..Len(generated_molecules) : generated_molecules[i].seed = seed

\* C27: when in every round the predictor sets stop or yields at least one
\* surviving atom, generate_molecules terminates with every seed finalized,
\* and no seed takes more than (max_num_atoms - its initial atom count)
\* rounds.
C27_Terminates == []RoundsBounded /\ <>AllSeedsFinalized

\* C26: growing a fragment never changes its seed tag: the fragment a round
\* puts back on the queue, or the entry it appends to generated_molecules,
\* carries the seed of the fragment the round took from the batch, and
\* nothing else is added to either.
C26_SeedCarried ==
    [][(gpc = "predict" /\ gpc' # "raised") =>
           LET seed == batch[1].seed
           IN  \/ /\ Len(generated_molecules') = Len(generated_molecules) + 1
                  /\ generated_molecules'[Len(generated_molecules')].seed = seed
                  /\ last_round'.new_fragment.seed = seed
                  /\ fragment_pool' = fragment_pool
               \/ /\ Len(fragment_pool') = Len(fragment_pool) + 1
                  /\ fragment_pool'[Len(fragment_pool')].seed = seed
                  /\ fragment_pool'[Len(fragment_pool')] = last_round'.new_fragment
                  /\ generated_molecules' = generated_molecules]_vars

\* The fragment of seed 1 has grown by one atom and waits at the end of the
\* queue with its tag, after seed 0 was completed.
C26_Witness ==
    /\ last_round # <<>>
    /\ last_round.fragment.seed = 1
    /\ Len(last_round.new_fragment.atoms) = Len(last_round.fragment.atoms) + 1
    /\ fragment_pool # <<>>
    /\ fragment_pool[Len(fragment_pool)] = last_round.new_fragment
    /\ fragment_pool[Len(fragment_pool)].seed = 1
    /\ \E i \in 1..Len(generated_molecules) : generated_molecules[i].seed = 0

\* The number of entries of a list (of fragments or of completed entries)
\* that carry a seed id.
CarriedIn(xs, seed) == Cardinality({i \in 1..Len(xs) : xs[i].seed = seed})

\* The growth rounds of the seeds are sequential: a step that is not a round
\* leaves every waiting fragment as it is; a round takes the fragment in the
\* batch, leaves every other waiting fragment as it is, and the only new
\* fragment is the one it produced, which extends the one it took and has
\* its seed.
RoundsSequential ==
    IF gpc = "predict" /\ gpc' # "raised"
    THEN /\ last_round'.fragment = batch[1]
         /\ last_round'.new_fragment.seed = batch[1].seed
         /\ SubSeq(last_round'.new_fragment.atoms, 1, Len(batch[1].atoms))
                = batch[1].atoms
         /\ \A f \in Range(fragment_pool') \cup Range(acc') \cup Range(batch') :
                \/ f \in Range(fragment_pool) \cup Range(acc)
                \/ f = last_round'.new_fragment
    ELSE \A f \in Range(fragment_pool') \cup Range(acc') \cup Range(batch') :
             f \in Waiting

\* C30 as stated: at every point each seed id is carried by exactly one
\* fragment among the queue, the batch being processed and the completed
\* list, and the rounds of a seed are sequential.
C30_OneCarrier ==
    /\ [](\A seed \in DOMAIN rounds :
             CarriedIn(fragment_pool, seed) + CarriedIn(batch, seed)
                 + CarriedIn(generated_molecules, seed) = 1)
    /\ [][RoundsSequential]_vars

\* C30, amended: at every point each seed id is carried by exactly one
\* fragment among the queue, the fragment the batcher has read ahead from
\* the queue and holds for the next batch, the batch being processed and the
\* completed list; the rounds of a seed never overlap, and each round of a
\* seed starts from the fragment its previous round produced.
C30_OneCarrierAmended ==
    /\ [](\A seed \in DOMAIN rounds :
             CarriedIn(fragment_pool, seed) + CarriedIn(acc, seed)
                 + CarriedIn(batch, seed)
                 + CarriedIn(generated_molecules, seed) = 1)
    /\ [][RoundsSequential]_vars

\* Three seeds at once: seed 0 is completed, seed 1 is in the batch in its
\* second round, seed 2 is held by the batcher.
C30_Witness ==
    /\ gpc = "predict"
    /\ CarriedIn(generated_molecules, 0) = 1
    /\ CarriedIn(batch, 1) = 1
    /\ rounds[1] = 1
    /\ Len(batch[1].atoms) = 2
    /\ CarriedIn(acc, 2) = 1
    /\ fragment_pool = <<>>

\* The fragments that wait for the predictor, in the order in which they
\* will be handed to it: the batch, the fragment the batcher holds, the
\* queue.
Line == batch \o acc \o fragment_pool

\* C31: fragments are handed to the predictor in FIFO order. A round takes
\* the fragment at the head of the line and a fragment it re-enqueues goes to
\* the end of the line, behind every fragment that was waiting; no other
\* step reorders the line; so, while the run goes on, no waiting fragment
\* has been through more rounds than a fragment that stands behind it.
C31_Fifo ==
    /\ [](gpc # "raised" =>
             \A i, j \in 1..Len(Line) :
                 i < j => rounds[Line[i].seed] <= rounds[Line[j].seed])
    /\ [][IF gpc = "predict" /\ gpc' # "raised"
          THEN \/ Line' = Tail(Line) \o <<last_round'.new_fragment>>
               \/ /\ Line' = Tail(Line)
                  /\ Len(generated_molecules') = Len(generated_molecules) + 1
          ELSE Line' = Line \/ (gpc' = "done" /\ Line' = <<>>)]_vars

\* Seed 0 has just been predicted for the second time, after seeds 1 and 2
\* were each predicted once and re-enqueued behind it.
C31_Witness ==
    /\ num_seeds = 3
    /\ last_round # <<>>
    /\ last_round.fragment.seed = 0
    /\ rounds[0] = 2
    /\ rounds[1] = 1
    /\ rounds[2] = 1
    /\ Len(Line) = 2
    /\ Line[1].seed = 1
    /\ Line[2].seed = 2

\* C32: a growth round only appends. The atoms of the fragment taken from
\* the queue are, unchanged and in the same order, the first atoms of the
\* grown fragment, and the atoms that follow are candidates that survived
\* the filter, in their order; and from one step to the next no seed's
\* fragment loses an atom, nor does its completed entry have fewer atoms than
\* the fragment it was made from.
C32_OnlyAppends ==
    /\ []((last_round # <<>> /\ last_round.num_survivors > 0) =>
             LET old == last_round.fragment.atoms
                 new == last_round.new_fragment.atoms
             IN  /\ Len(new) > Len(old)
                 /\ SubSeq(new, 1, Len(old)) = old
                 /\ Len(new) - Len(old) <= last_round.num_survivors
                 /\ \A k \in (Len(old) + 1)..Len(new) :
                        /\ KeepsCandidate(new[k].pos, Eps)
                        /\ new[k].species \in CandidateSpecies)
    /\ [][/\ \A f \in Range(Line) : \A g \in Range(Line') :
                 f.seed = g.seed => Len(g.atoms) >= Len(f.atoms)
          /\ (gpc = "predict" /\ Len(generated_molecules') > Len(generated_molecules))
                 => generated_molecules'[Len(generated_molecules')].n_node
                        >= Len(batch[1].atoms)]_vars

\* A fragment of two atoms at different places has grown by one more: the
\* first two atoms of the grown fragment are the old ones.
C32_Witness ==
    /\ last_round # <<>>
    /\ Len(last_round.fragment.atoms) = 2
    /\ last_round.fragment.atoms[1].pos # last_round.fragment.atoms[2].pos
    /\ Len(last_round.new_fragment.atoms) = 3
    /\ SubSeq(last_round.new_fragment.atoms, 1, 2) = last_round.fragment.atoms

\* C33: whenever the condition of the main loop is evaluated, the number
\* of completed entries plus the size of the queue is num_seeds (no
\* fragment is then in a batch or held by the batcher); so the loop is left
\* only with an empty queue and num_seeds completed entries, and the code
\* after the loop finds no fragment to finalize.
C33_LoopAccounting ==
    /\ [](gpc = "while" =>
             /\ Len(generated_molecules) + Len(fragment_pool) = num_seeds
             /\ acc = <<>>
             /\ batch = <<>>)
    /\ [][(gpc = "while" /\ gpc' = "done") =>
              /\ fragment_pool = <<>>
              /\ Len(generated_molecules) = num_seeds
              /\ Unfinished(fragment_pool) = <<>>
              /\ generated_molecules' = generated_molecules]_vars

\* The loop condition is evaluated in the middle of a run: one seed is
\* completed and the other, grown by a round, is back in the queue.
C33_Witness ==
    /\ gpc = "while"
    /\ num_seeds = 2
    /\ Len(generated_molecules) = 1
    /\ Len(fragment_pool) = 1
    /\ Len(fragment_pool[1].atoms) = 2
    /\ rounds[fragment_pool[1].seed] = 1

\* C38: when the predictor sets stop, the candidates of that round that
\* survive the filter are still appended, up to the cap, before the fragment
\* is finalized: the newest completed entry is tagged stop=True and has the
\* atoms of the submitted fragment and these atoms after them.
C38_StopStillAppends ==
    (last_round # <<>> /\ last_round.stop /\ last_round.num_survivors > 0) =>
        LET old == last_round.fragment
            grown == last_round.new_fragment
            added == ExtraLen(last_round.num_survivors, MaxNumAtoms)
        IN  /\ added >= 1
            /\ Len(grown.atoms) = Len(old.atoms) + added
            /\ SubSeq(grown.atoms, 1, Len(old.atoms)) = old.atoms
            /\ generated_molecules # <<>>
            /\ generated_molecules[Len(generated_molecules)]
                   = [stop |-> TRUE, seed |-> old.seed,
                      n_node |-> Len(old.atoms) + added]

\* Stop predicted in the first round together with two candidates that
\* survive: the molecule is completed with three atoms.
C38_Witness ==
    /\ last_round # <<>>
    /\ last_round.stop
    /\ last_round.num_survivors = 2
    /\ Len(last_round.fragment.atoms) = 1
    /\ generated_molecules # <<>>
    /\ generated_molecules[Len(generated_molecules)].stop
    /\ generated_molecules[Len(generated_molecules)].n_node = 3

(***************************************************************************)
(* subgraph                                                                *)
(***************************************************************************)
\* Values of the globals of an argument graph.
GlobalsChoices == {<<0>>, <<1>>}

\* A jraph.GraphsTuple: the graph m of a molecule as a single graph, or
\* batched n_graphs times (the node arrays repeated, the edges of each copy
\* shifted to its nodes).
InputGraph(m, n_graphs, globals) ==
    LET n == NumNodes(m)
        e == NumEdges(m)
    IN  [positions |-> [k \in 1..(n * n_graphs) |-> m.positions[((k - 1) % n) + 1]],
         species   |-> [k \in 1..(n * n_graphs) |-> m.species[((k - 1) % n) + 1]],
         senders   |-> [k \in 1..(e * n_graphs) |->
                           Senders(m)[((k - 1) % e) + 1] + n * ((k - 1) \div e)],
         receivers |-> [k \in 1..(e * n_graphs) |->
                           Receivers(m)[((k - 1) % e) + 1] + n * ((k - 1) \div e)],
         globals   |-> globals,
         n_node    |-> [g \in 1..n_graphs |-> n],
         n_edge    |-> [g \in 1..n_graphs |-> e]]

\* The assertion of subgraph: a single graph.
SubgraphAssert(graph) == Len(graph.n_edge) = 1 /\ Len(graph.n_node) = 1

\* A plausible slip: an edge is kept when its sender is among the nodes,
\* whatever its receiver.
SubgraphEdges_SendersOnly(graph, nodes) ==
    {e \in 1..Len(graph.senders) : graph.senders[e] \in Range(nodes)}

\* edges = np.isin(graph.senders, nodes) & np.isin(graph.receivers, nodes)
SubgraphEdges(graph, nodes) ==
    {e \in 1..Len(graph.senders) :
        graph.senders[e] \in Range(nodes) /\ graph.receivers[e] \in Range(nodes)}

\* new_node_indices: -1 everywhere, then new_node_indices[nodes] =
\* np.arange(len(nodes)); for an index listed twice the last assignment stays.
NewNodeIndices(graph, nodes) ==
    [i \in 0..(graph.n_node[1] - 1) |->
        IF i \in Range(nodes)
        THEN Max({k \in 1..Len(nodes) : nodes[k] = i}) - 1
        ELSE -1]

\* The graph subgraph returns.
Subgraph(graph, nodes) ==
    LET edges == SubgraphEdges(graph, nodes)
        kept == SortedSeq(edges)
        new_node_indices == NewNodeIndices(graph, nodes)
    IN  [positions |-> NodeRows(graph.positions, nodes),
         species   |-> NodeRows(graph.species, nodes),
         globals   |-> graph.globals,
         senders   |-> [k \in 1..Len(kept) |-> new_node_indices[graph.senders[kept[k]]]],
         receivers |-> [k \in 1..Len(kept) |-> new_node_indices[graph.receivers[kept[k]]]],
         n_node    |-> <<Len(nodes)>>,
         n_edge    |-> <<Cardinality(edges)>>]

\* The lists of node indices subgraph is called with: up to as many
\* entries as the first graph has nodes, in any order, repeats included.
NodeLists(graph) ==
    UNION {[1..k -> 0..(graph.n_node[1] - 1)] : k \in 0..graph.n_node[1]}

SubgraphCall ==
    /\ sub_pc = "call"
    /\ IF ~SubgraphAssert(sub_graph)
       THEN /\ sub_pc' = "raised"
            /\ UNCHANGED sub_result
       ELSE /\ sub_result' = Subgraph(sub_graph, sub_nodes)
            /\ sub_pc' = "done"
    /\ UNCHANGED <<sub_graph, sub_nodes>>
    /\ UNCHANGED <<fvars, gvars, tvars>>

\* subgraph called on a molecule, or on a batch of two copies of it.
InitSub ==
    /\ SeqIdle
    /\ GenIdle
    /\ TrainIdle
    /\ sub_pc = "call"
    /\ \E i \in 1..Len(Molecules), c \in CutoffChoices, n_graphs \in {1, 2},
          globals \in GlobalsChoices :
           sub_graph = InputGraph(Graphs[i, c], n_graphs, globals)
    /\ sub_nodes \in NodeLists(sub_graph)
    /\ sub_result = <<>>

NextSub == SubgraphCall

SpecSub == InitSub /\ [][NextSub]_vars

\* A list without repeats.
DuplicateFree(xs) == \A i, j \in 1..Len(xs) : xs[i] = xs[j] => i = j

\* The (sender, receiver) pairs of the edges of a graph, in edge order.
EdgeList(graph) ==
    [e \in 1..Len(graph.senders) |-> <<graph.senders[e], graph.receivers[e]>>]

\* C22: for a single graph and a duplicate-free list nodes of length k,
\* subgraph returns a graph whose i-th node is node nodes[i] of the argument,
\* with n_node = k; its edges, read through nodes (sender s' stands for
\* nodes[s'], receiver r' for nodes[r']), are the edges of the argument with
\* both endpoints in nodes, each once; n_edge is their number; the globals
\* are those of the argument.
C22_SubgraphExact ==
    (sub_pc = "done" /\ DuplicateFree(sub_nodes)) =>
        LET k == Len(sub_nodes)
            inside == SelectSeq(EdgeList(sub_graph),
                                LAMBDA sr : sr[1] \in Range(sub_nodes)
                                            /\ sr[2] \in Range(sub_nodes))
            out == EdgeList(sub_result)
        IN  /\ sub_result.n_node = <<k>>
            /\ Len(sub_result.positions) = k
            /\ Len(sub_result.species) = k
            /\ \A i \in 1..k :
                   /\ sub_result.positions[i] = sub_graph.positions[sub_nodes[i] + 1]
                   /\ sub_result.species[i] = sub_graph.species[sub_nodes[i] + 1]
            /\ sub_result.n_edge = <<Len(inside)>>
            /\ Len(sub_result.receivers) = Len(sub_result.senders)
            /\ Len(out) = Len(inside)
            /\ \A e \in 1..Len(out) :
                   /\ out[e][1] \in 0..(k - 1)
                   /\ out[e][2] \in 0..(k - 1)
                   /\ <<sub_nodes[out[e][1] + 1], sub_nodes[out[e][2] + 1]>> = inside[e]
            /\ sub_result.globals = sub_graph.globals

\* Nodes 3 and 1 of the chiral piece, in that order: the subgraph holds the
\* two edges between them, with node 3 renamed 0 and node 1 renamed 1.
C22_Witness ==
    /\ sub_pc = "done"
    /\ sub_nodes = <<3, 1>>
    /\ Len(sub_graph.positions) = 4
    /\ sub_result.n_edge = <<2>>
    /\ EdgeList(sub_result) = << <<0, 1>>, <<1, 0>> >>

(***************************************************************************)
(* generate_fragments and subgraph on arbitrary inputs                     *)
(***************************************************************************)
\* The molecules of the calls with arbitrary arguments: the three-atom
\* line, the single atom, the two distant atoms and the bent chain.
WideMolecules == {2, 5, 6, 7}

\* generate_fragments called with any argument combination, on one graph or
\* on a batch of two, at either radial cutoff; and subgraph called on the
\* same graph with the list of all nodes of its first graph.
InitWide ==
    /\ InitSeqVars(WideMolecules, {1, 2}, AllConfigs, NoTwin)
    /\ GenIdle
    /\ TrainIdle
    /\ sub_pc = "call"
    /\ sub_graph = InputGraph(mol, num_graphs, <<0>>)
    /\ sub_nodes = AllNodesSeq(mol)
    /\ sub_result = <<>>

NextWide ==
    \/ NextSeq
    \/ SubgraphCall

SpecWide == InitWide /\ [][NextWide]_vars

\* C25 as stated: generate_fragments and subgraph end with an assertion
\* failure on any input that holds more than one graph, and
\* generate_fragments on a graph with fewer than two nodes, with no fragment
\* emitted.
C25_RejectsBadGraph ==
    /\ (fpc \notin {"idle", "start"} /\ (num_graphs > 1 \/ NumNodes(mol) < 2)) =>
           (fpc = "raised" /\ ferr = "AssertionError" /\ emitted = <<>>)
    /\ (sub_pc \notin {"idle", "call"} /\ Len(sub_graph.n_node) > 1) =>
           (sub_pc = "raised" /\ sub_result = <<>>)

\* C25, amended: generate_fragments rejects any input that holds more than
\* one graph, or a graph with fewer than two nodes, before it emits a
\* fragment: with an assertion failure when mode, max_radius and nn_tolerance
\* pass the argument checks, which come first, and with the ValueError of
\* those checks when they do not; subgraph rejects any input that holds more
\* than one graph with an assertion failure.
C25_RejectsBadGraphAmended ==
    /\ (fpc \notin {"idle", "start"} /\ (num_graphs > 1 \/ NumNodes(mol) < 2)) =>
           /\ fpc = "raised"
           /\ emitted = <<>>
           /\ ferr \in ArgumentErrors \cup {"AssertionError"}
           /\ ferr = "AssertionError" <=>
                  (/\ cfg.mode \in {"nn", "radius"}
                   /\ (cfg.mode = "radius") = (cfg.max_radius # NoneValue)
                   /\ (cfg.mode = "nn") = (cfg.nn_tolerance # NoneValue))
    /\ (sub_pc \notin {"idle", "call"} /\ Len(sub_graph.n_node) > 1) =>
           (sub_pc = "raised" /\ sub_result = <<>>)

\* A batch of two graphs, with valid arguments: both generate_fragments and
\* subgraph have failed their "single graph" assertion.
C25_Witness ==
    /\ num_graphs = 2
    /\ NumNodes(mol) >= 2
    /\ fpc = "raised"
    /\ ferr = "AssertionError"
    /\ emitted = <<>>
    /\ sub_pc = "raised"
    /\ Len(sub_graph.n_node) = 2

\* Some target offset is not within the radial cutoff.
OutsideCutoff(target_positions, cutoff) ==
    \E i \in 1..Len(target_positions) :
        \E k \in 1..Len(target_positions[i]) :
            VecNorm(target_positions[i][k]) >= cutoff

\* C29: _into_fragment fails with an assertion error exactly when some
\* target offset of the fragment being built is not within the configured
\* radial cutoff: a first or Middle step that ends with an assertion failure
\* was building a fragment with such an offset, a Middle step that has one
\* fails, every fragment emitted has all its target offsets within the
\* configured cutoff, and the terminal fragment (all offsets zero) is always
\* built.
C29_CutoffAssertion ==
    [][/\ (fpc = "first" /\ fpc' = "raised" /\ ferr' = "AssertionError") =>
              \E target_species \in
                  {Species(mol, t) : t \in Range(FirstTargets(mol, cfg, first_atom'))} :
                  LET picked == PickTargets(mol, FirstTargets(mol, cfg, first_atom'),
                                            target_species, cfg.max_targets_per_graph)
                  IN  OutsideCutoff(
                          BuilderTargetPositions(mol, cfg, {first_atom'},
                              <<PadZeros(picked, cfg.max_targets_per_graph)>>,
                              FirstTargetMask(cfg, Len(picked))),
                          cfg.cutoff)
       /\ (fpc = "trials" /\ trial = NumTrials) =>
              ((fpc' = "raised" /\ ferr' = "AssertionError") <=>
               OutsideCutoff(
                   BuilderTargetPositions(mol, cfg, focus_nodes,
                       MiddleTargetNodesAll(mol, cfg, visited, focus_nodes,
                                            best_target_ndxs),
                       MiddleTargetMask(mol, cfg, visited, focus_nodes,
                                        best_target_ndxs)),
                   cfg.cutoff))
       /\ Len(emitted') > Len(emitted) =>
              ~OutsideCutoff(emitted'[Len(emitted')].target_positions, cfg.cutoff)
       /\ (fpc = "loop" /\ ~LoopContinues(mol, counter, visited)
           /\ Len(visited) = NumNodes(mol)) => fpc' = "done"]_vars

\* Two nodes joined by an edge of the molecule graph.
Joined(m, i, j) ==
    \E e \in EdgeIdx(m) : Senders(m)[e] = i /\ Receivers(m)[e] = j

\* C34: every node newly added to the visited list (one that was not in it
\* already) is joined by an edge of the molecule graph to a node visited
\* before it, so the visited nodes induce a connected subgraph.
C34_VisitedConnected ==
    \A k \in 2..Len(visited) :
        visited[k] \notin {visited[j] : j \in 1..(k - 1)} =>
            \E j \in 1..(k - 1) : Joined(mol, visited[j], visited[k])

\* The valid entries of slot r of a fragment.
ValidEntries(frag, r) ==
    {k \in 1..Len(frag.target_positions_mask[r]) : frag.target_positions_mask[r][k]}

\* C35: in every non-terminal fragment no valid target is a node of the
\* fragment, and each of the first slots, one for every focus node, holds
\* between 1 and max_targets_per_graph valid targets.
C35_TargetsOutsideFragment ==
    \A i \in 1..Len(emitted) :
        ~emitted[i].stop =>
            LET frag == emitted[i]
            IN  /\ \A r \in 1..Len(frag.target_nodes) :
                       \A k \in ValidEntries(frag, r) :
                           frag.target_nodes[r][k] \notin Range(frag.nodes)
                /\ \A r \in 1..Cardinality(frag.focus_mask) :
                       /\ Cardinality(ValidEntries(frag, r)) >= 1
                       /\ Cardinality(ValidEntries(frag, r)) <= cfg.max_targets_per_graph
                /\ Cardinality(frag.focus_mask) >= 1
                /\ Cardinality(frag.focus_mask) <= Len(frag.target_nodes)

\* A fragment of two nodes, both of them foci, one of which has two valid
\* targets.
C35_Witness ==
    \E i \in 1..Len(emitted) :
        /\ ~emitted[i].stop
        /\ emitted[i].n_node = 2
        /\ Cardinality(emitted[i].focus_mask) = 2
        /\ \E r \in 1..2 : Cardinality(ValidEntries(emitted[i], r)) = 2

\* The focus nodes of a non-terminal fragment, as indices (from 1) into its
\* node list in ascending order: subgraph takes the rows of focus_mask at the
\* visited nodes, in the order of the visited list.
FragmentFoci(frag) ==
    SortedSeq({k \in 1..Len(frag.nodes) : frag.nodes[k] \in frag.focus_mask})

\* The slots of a fragment that hold at least one valid entry.
UsedSlots(frag) ==
    {r \in 1..Len(frag.target_positions_mask) : ValidEntries(frag, r) # {}}

\* C36: in every non-terminal fragment the number of target slots with at
\* least one valid entry is the number of focus nodes of the fragment, and
\* slot i belongs to the i-th focus node in ascending order of the node
\* index: every valid offset in slot i is position(target) minus the position
\* of that focus node, and the target is joined to it by an edge and is not
\* a node of the fragment.
C36_SlotsFollowFoci ==
    \A i \in 1..Len(emitted) :
        ~emitted[i].stop =>
            LET frag == emitted[i]
                foci == FragmentFoci(frag)
            IN  /\ Cardinality(UsedSlots(frag)) = Len(foci)
                /\ \A r \in UsedSlots(frag) :
                       /\ r <= Len(foci)
                       /\ \A k \in ValidEntries(frag, r) :
                              /\ frag.target_positions[r][k] =
                                     Diff3(Pos(mol, frag.target_nodes[r][k]),
                                           frag.positions[foci[r]])
                              /\ Joined(mol, frag.nodes[foci[r]], frag.target_nodes[r][k])
                              /\ frag.target_nodes[r][k] \notin Range(frag.nodes)

\* The same pairing read through the node indices of the molecule: slot i
\* and the i-th marked node of the molecule in ascending order.
SlotsFollowMoleculeFoci ==
    \A i \in 1..Len(emitted) :
        ~emitted[i].stop =>
            LET frag == emitted[i]
                foci == SortedSeq(frag.focus_mask)
            IN  /\ Cardinality(UsedSlots(frag)) = Len(foci)
                /\ \A r \in UsedSlots(frag) :
                       /\ r <= Len(foci)
                       /\ \A k \in ValidEntries(frag, r) :
                              /\ frag.target_positions[r][k] =
                                     Diff3(Pos(mol, frag.target_nodes[r][k]),
                                           Pos(mol, foci[r]))
                              /\ Joined(mol, foci[r], frag.target_nodes[r][k])

\* A reachable state: the fragment of the tetris piece over the visited
\* nodes 2, 0 (in that order, no padding entry drawn), both of them foci.
C36_FociOutOfOrder ==
    /\ mol.id = 1
    /\ cfg.mode = "radius"
    /\ cfg.max_targets_per_graph = 1
    /\ cfg.num_nodes_for_multifocus = 2
    /\ Len(emitted) = 2
    /\ emitted[2].nodes = <<2, 0>>
    /\ emitted[2].focus_mask = {0, 2}
    /\ emitted[2].target_positions[1][1]
           # Diff3(Pos(mol, emitted[2].target_nodes[1][1]), emitted[2].positions[1])

\* The number of one-node fragments in a list of fragments: what the QM9
\* loader counts (n_node[0] == 1) to find where a molecule starts.
OneNodeFragments(fragments) ==
    Cardinality({i \in 1..Len(fragments) : fragments[i].n_node = 1})

\* C37: in every fragment sequence the first fragment, and no other, has
\* exactly one node, so a sequence counts as one molecule.
C37_OneNodeOnlyFirst ==
    /\ \A i \in 1..Len(emitted) : emitted[i].n_node = 1 <=> i = 1
    /\ emitted # <<>> => OneNodeFragments(emitted) = 1

\* A complete sequence in which the padding entry was drawn: the second
\* fragment lists the first node twice and still has two nodes.
C37_Witness ==
    /\ fpc = "done"
    /\ Len(emitted) = 3
    /\ emitted[1].n_node = 1
    /\ emitted[2].nodes = <<0, 0>>
    /\ emitted[2].n_node = 2
    /\ emitted[3].stop
    /\ emitted[3].n_node = 3

(***************************************************************************)
(* The training loop of the position updater: train_and_evaluate.  A       *)
(* training state is named by the number of updates it has had, which is   *)
(* its step counter state.step.                                            *)
(***************************************************************************)
\* float("inf"): larger than every validation loss.
Infinity == 99

\* The validation total_loss an evaluation can report.
ValLosses == {1, 2, 3}

MaxTrainSteps == 3

\* config.num_train_steps and config.eval_every_steps.
TrainConfigs == [num_train_steps : 0..MaxTrainSteps, eval_every_steps : {1, 2}]

\* The numbers of batches the training iterator can hold after the one used
\* to initialize the network.
TrainBatches == 0..MaxTrainSteps

\* ckpt.restore_or_initialize: the initial entry when workdir holds no
\* checkpoint, else what an earlier call saved: its state, and the best
\* state it had recorded with the loss that made it the best.
Checkpoints ==
    {[state |-> 0, best_state |-> 0, step_for_best_state |-> 1,
      metrics_for_best_state |-> NoneValue]}
    \cup UNION {{[state |-> s, best_state |-> b,
                  step_for_best_state |-> b + 1,
                  metrics_for_best_state |-> l] :
                     b \in 0..s, l \in ValLosses} : s \in 0..MaxTrainSteps}

\* min_val_loss of a restored entry.
RestoredMinValLoss(metrics_for_best_state) ==
    IF metrics_for_best_state = NoneValue THEN Infinity
    ELSE metrics_for_best_state

\* The evaluations an entry records: that of its best state, if any.
RestoredEvaluations(restored) ==
    IF restored.metrics_for_best_state = NoneValue THEN <<>>
    ELSE <<[state |-> restored.best_state,
            loss |-> restored.metrics_for_best_state]>>

\* The test that makes the evaluated state the best state.
IsNewBest(loss, min_loss) == loss < min_loss

\* step % config.eval_every_steps == 0 or first_or_last_step
EvalDue(s, first, config) ==
    \/ s % config.eval_every_steps = 0
    \/ s \in {first, config.num_train_steps}

\* train_and_evaluate called with a configuration, a checkpoint directory
\* and a training set.
InitTrain ==
    /\ SeqIdle
    /\ GenIdle
    /\ SubIdle
    /\ tpc = "loop"
    /\ tcfg \in TrainConfigs
    /\ \E restored \in Checkpoints :
        /\ state = restored.state
        /\ best_state = restored.best_state
        /\ step_for_best_state = restored.step_for_best_state
        /\ min_val_loss = RestoredMinValLoss(restored.metrics_for_best_state)
        /\ evaluations = RestoredEvaluations(restored)
    /\ initial_step = state + 1
    /\ step = NoneValue
    /\ train_iter \in TrainBatches
    /\ returned = NoneValue
    /\ terr = "none"

\* for step in range(initial_step, config.num_train_steps + 1)
TrainLoopHead ==
    /\ tpc = "loop"
    /\ LET next_step == IF step = NoneValue THEN initial_step ELSE step + 1
       IN  IF next_step <= tcfg.num_train_steps
           THEN /\ step' = next_step
                /\ tpc' = "evaluate"
           ELSE /\ tpc' = "final"
                /\ UNCHANGED step
    /\ UNCHANGED <<tcfg, initial_step, state, best_state, step_for_best_state,
                   min_val_loss, evaluations, train_iter, returned, terr>>
    /\ UNCHANGED <<fvars, gvars, svars>>

\* The evaluation of the current state, when one is due at this step, and
\* the update of the best state.
TrainEvaluate ==
    /\ tpc = "evaluate"
    /\ IF EvalDue(step, initial_step, tcfg)
       THEN \E loss \in ValLosses :
              /\ evaluations' =
                     Append(evaluations, [state |-> state, loss |-> loss])
              /\ IF IsNewBest(loss, min_val_loss)
                 THEN /\ min_val_loss' = loss
                      /\ best_state' = state
                      /\ step_for_best_state' = step
                 ELSE UNCHANGED <<min_val_loss, best_state,
                                  step_for_best_state>>
       ELSE UNCHANGED <<evaluations, min_val_loss, best_state,
                        step_for_best_state>>
    /\ tpc' = "batch"
    /\ UNCHANGED <<tcfg, initial_step, step, state, train_iter, returned, terr>>
    /\ UNCHANGED <<fvars, gvars, svars>>

\* next(train_iter) and train_step; StopIteration leaves the loop.
TrainStep ==
    /\ tpc = "batch"
    /\ IF train_iter = 0
       THEN /\ tpc' = "final"
            /\ UNCHANGED <<state, train_iter>>
       ELSE /\ train_iter' = train_iter - 1
            /\ state' = state + 1
            /\ tpc' = "loop"
    /\ UNCHANGED <<tcfg, initial_step, step, best_state, step_for_best_state,
                   min_val_loss, evaluations, returned, terr>>
    /\ UNCHANGED <<fvars, gvars, svars>>

\* The code after the loop: the final evaluation of the best state, which
\* reads the loop variable, and the return.
TrainFinish ==
    /\ tpc = "final"
    /\ IF step = NoneValue
       THEN /\ terr' = "UnboundLocalError"
            /\ tpc' = "raised"
            /\ UNCHANGED returned
       ELSE /\ returned' = best_state
            /\ tpc' = "returned"
            /\ UNCHANGED terr
    /\ UNCHANGED <<tcfg, initial_step, step, state, best_state,
                   step_for_best_state, min_val_loss, evaluations, train_iter>>
    /\ UNCHANGED <<fvars, gvars, svars>>

NextTrain ==
    \/ TrainLoopHead
    \/ TrainEvaluate
    \/ TrainStep
    \/ TrainFinish

SpecTrain == InitTrain /\ [][NextTrain]_vars

\* The lowest loss among the evaluations so far, and the state of the
\* earliest evaluation that reported it.
LowestLoss == Min({evaluations[i].loss : i \in 1..Len(evaluations)})

EarliestLowest ==
    evaluations[Min({i \in 1..Len(evaluations) :
                        evaluations[i].loss = LowestLoss})].state

\* After each evaluation the recorded best state is the earliest state with
\* the lowest loss.
BestRecorded ==
    evaluations # <<>> =>
        /\ min_val_loss = LowestLoss
        /\ best_state = EarliestLowest

\* A call that has ended.
TrainEnded == tpc \in {"returned", "raised"}

\* C39: after each evaluation the recorded best state is the state with the
\* lowest validation loss among all evaluations so far, the earliest one on
\* ties; the recorded minimum never increases; and every call of
\* train_and_evaluate returns the recorded best state.
C39_BestStateReturned ==
    /\ [](BestRecorded /\ (TrainEnded => tpc = "returned" /\ returned = best_state))
    /\ [][min_val_loss' <= min_val_loss]_vars

\* The same for the calls whose loop runs at least once.
BestStateReturnedAfterLoop ==
    /\ [](BestRecorded /\ (TrainEnded /\ step # NoneValue
                              => tpc = "returned" /\ returned = best_state))
    /\ [][min_val_loss' <= min_val_loss]_vars

\* A call that returned an earlier state than the last trained one, kept on
\* a tie, after the training iterator ran out early.
BestEarlierThanLast ==
    /\ tpc = "returned"
    /\ step < tcfg.num_train_steps
    /\ returned < state
    /\ \E i, j \in 1..Len(evaluations) :
        /\ i < j
        /\ evaluations[i].loss = evaluations[j].loss
        /\ evaluations[i].state = returned
        /\ evaluations[j].state # returned

\* A call whose loop never runs: the checkpoint is that of a finished run.
C39_LoopNeverRuns ==
    /\ tpc = "raised"
    /\ terr = "UnboundLocalError"
    /\ initial_step > tcfg.num_train_steps

====
